---------------------------- MODULE Spec2Model ----------------------------
(***************************************************************************)
(* A model of the pyralog log store: the segmented storage engine          *)
(* (pyralog-storage), the epoch store and sequencer (pyralog-core), the    *)
(* Raft node (pyralog-consensus), the replication manager                  *)
(* (pyralog-replication) and the produce handler of the server.            *)
(*                                                                         *)
(* Several specifications share the variables; each one moves the part of  *)
(* the state its component owns and leaves the rest unchanged:             *)
(*   SpecStorage   one LogStorage, calls run one after the other           *)
(*   SpecConc      one LogStorage, calls of two tasks interleaved          *)
(*   SpecEpoch     two Sequencers (one per node) and their epoch stores    *)
(*   SpecRaft      the Raft nodes of one cluster and their files:          *)
(*                 elections                                               *)
(*   SpecRaftLog   one Raft node and its file: elections, propose, every   *)
(*                 AppendEntries and vote request                          *)
(*   SpecServer    DLogServer::produce over its storage and replication    *)
(*   SpecSegment   one Segment: append, read, reopen                       *)
(*   SpecRepl      the SyncManager: progress updates and the waits         *)
(*   SpecRaftLive  the Raft nodes with fair election timers, a leader that *)
(*                 stops                                                   *)
(*   SpecQuorum    QuorumConfig::validate over every configuration         *)
(*   SpecEpochMap  one epoch store: the offset conversions                 *)
(*   SpecSeal      one Sequencer: activate and seal_epoch with its result  *)
(*   SpecLsn       EpochOffset::to_lsn and from_lsn                        *)
(*   SpecQuorumSet one QuorumSet and the responses it is told of           *)
(*   SpecCopyset   ReplicationManager::get_copyset called by two tasks     *)
(*   SpecTiered    TieredStorage::archive_old_segments over the directory  *)
(*                 of a LogStorage                                         *)
(*   SpecOversize  one LogStorage, the calls of one task step by step,     *)
(*                 with a record larger than a segment                     *)
(*   SpecGetStorage  DLogServer::get_or_create_storage called by two tasks *)
(***************************************************************************)
EXTENDS Integers, Sequences, FiniteSets, TLC

VARIABLES
    \* ---- the partition directory (shared by every handle on a file)
    log_files,        \* base offset (file name) -> bytes of <base>.log
    index_files,      \* base offset (file name) -> entries of <base>.index
    \* ---- one LogStorage instance
    segments,         \* LogStorage.segments: sequence of SegmentWithIndex
    write_cache,      \* LogStorage.write_cache: records awaiting write
    current_offset,   \* LogStorage.current_offset
    \* ---- what the calls returned
    acked,            \* records whose append / append_batch returned Ok
    handed,           \* <<first offset, count>> of each call that reserved offsets
    flushed,          \* the last append, append_batch or flush was an Ok flush
    synced_files,     \* [log, index]: file name -> content at its last sync_all
    \* ---- tasks running calls on the LogStorage concurrently
    task,
    \* ---- epoch stores: node -> Sequencer.partition_epochs of that node
    partition_epochs,
    epoch_calls,      \* what activate / seal_epoch returned, per call
    \* ---- Raft nodes
    raft,
    raft_log,         \* node id -> PersistentState last saved in raft-<id>.log
    \* ---- server: cluster metadata, replication progress, produce responses
    cluster,          \* ClusterManager: logs and partition_assignments
    node_offsets,     \* SyncManager.node_offsets
    responses,        \* the last ProduceResponse returned with Ok
    \* ---- SyncManager: notifiers and the tasks waiting on them
    notifiers,        \* SyncManager.notifiers: the nodes that have a Notify
    waiters,          \* tasks inside wait_for_offset / wait_for_quorum
    \* ---- calls on one component taken alone
    appended,         \* Segment: <<position returned, bytes>> of each append
    last_call,        \* the last call of a function and what it returned
    \* ---- one QuorumSet
    quorum_set,       \* [all_nodes, required_nodes, responses, target]
    \* ---- one ReplicationManager: the copysets of the partitions
    partition_copysets, \* ReplicationManager.partition_copysets
    copyset_usage,    \* CopySetSelector.copyset_usage: nodes -> times selected
    copyset_task,     \* the get_copyset call of each task: [pc, partition, copyset]
    copyset_returns,  \* what the get_copyset calls returned: [partition, copyset]
    \* ---- TieredStorage over the partition directory
    remote_files,     \* the remote store: file name -> bytes uploaded
    archive_call,     \* the last archive_old_segments: [before_offset, archived]
    \* ---- DLogServer.storage and the tasks inside get_or_create_storage
    storage_map,      \* DLogServer.storage: key -> LogStorage instance
    instances,        \* the LogStorage instances created so far, by key
    storage_task,     \* the call of each task: [pc, key, instance]
    storage_returns   \* what the calls returned: [key, instance]

storageVars == <<log_files, index_files, segments, write_cache, current_offset,
                 acked, handed, flushed, synced_files>>
vars == <<log_files, index_files, segments, write_cache, current_offset,
          acked, handed, flushed, synced_files, task, partition_epochs, epoch_calls, raft,
          raft_log, cluster, node_offsets, responses, notifiers, waiters, appended,
          last_call, quorum_set, partition_copysets, copyset_usage, copyset_task,
          copyset_returns, remote_files, archive_call, storage_map, instances,
          storage_task, storage_returns>>
moreVars == <<notifiers, waiters, appended, last_call>>
copysetVars == <<partition_copysets, copyset_usage, copyset_task, copyset_returns>>
tieredVars == <<remote_files, archive_call>>
serverVars == <<storage_map, instances, storage_task, storage_returns>>
laterVars == <<quorum_set, copysetVars, tieredVars, serverVars>>
restVars == <<partition_epochs, epoch_calls, raft, raft_log, cluster, node_offsets,
              responses, moreVars>>
coreVars == <<storageVars, task, restVars>>

-----------------------------------------------------------------------------
(* Bounds of the model *)

MaxOffset == 4          \* offsets handed out by one LogStorage
MaxBatch == 2           \* records in one append_batch
MaxConcOffset == 3      \* offsets handed out when two tasks interleave
MaxEpochs == 3          \* epochs started over all the epoch stores
MaxTerm == 2            \* Raft terms
MaxLogLen == 2          \* entries in a Raft log
MaxEntries == 1         \* entries in one AppendEntries request
MaxSegments == 6        \* segments in the list of one LogStorage
MaxResponses == 4        \* add_response calls counted by one QuorumSet
MaxReplOffset == 1      \* offsets the replicas report
UsizeBits == 3          \* width of a usize, scaled down from 64
OffsetBits == 3         \* width of a u32, scaled down from 32; a u64 has twice it

(* Configuration, scaled down: SegmentConfig.max_size and                  *)
(* WriteCacheConfig.max_size in the units of the model's bytes.            *)
SegMaxSize == 8
CacheMaxSize == 3

Max(a, b) == IF a >= b THEN a ELSE b
Min(a, b) == IF a <= b THEN a ELSE b

-----------------------------------------------------------------------------
(* Records and their serialized form *)

EPOCH_INVALID == 0
EPOCH_FIRST == 1

\* the records callers hand to the storage: <<value, epoch>>
Inputs == {<< <<7>>, 1 >>, << <<8, 9>>, 2 >>}

\* Record::new: offset ZERO, epoch INVALID; key None and headers empty throughout
RecordNew(value) == [offset |-> 0, epoch |-> EPOCH_INVALID, value |-> value]

with_epoch(rec, epoch) == [rec EXCEPT !.epoch = epoch]

\* Record::size_bytes with key None
size_bytes(rec) == Len(rec.value)

\* bincode::serialize(&record): the fixed-width fields, then the value with
\* its length prefix
Serialize(rec) == <<rec.offset, rec.epoch, Len(rec.value)>> \o rec.value

\* bincode::deserialize: fails when the slice ends before the value does;
\* trailing bytes are ignored
DeserializeOk(data) == Len(data) >= 3 /\ data[3] <= Len(data) - 3

Deserialize(data) ==
    [offset |-> data[1], epoch |-> data[2], value |-> SubSeq(data, 4, 3 + data[3])]

-----------------------------------------------------------------------------
(* Files: a write through a handle puts the bytes at the handle's cursor *)

WriteAt(content, cursor, data) ==
    [i \in 1..Max(Len(content), cursor + Len(data)) |->
        IF i > cursor /\ i <= cursor + Len(data) THEN data[i - cursor]
        ELSE IF i <= Len(content) THEN content[i]
        ELSE 0]

\* OpenOptions::new().create(true): an existing file is opened as it is
CreateFile(files, name, empty) ==
    IF name \in DOMAIN files THEN files
    ELSE [n \in DOMAIN files \cup {name} |-> IF n = name THEN empty ELSE files[n]]

MapInsert(f, k, v) == [x \in DOMAIN f \cup {k} |-> IF x = k THEN v ELSE f[x]]

EmptyMap == [x \in {} |-> 0]

-----------------------------------------------------------------------------
(* Segment and Index.  A SegmentWithIndex of the model holds                *)
(*   base, size     Segment.base_offset, Segment.current_size               *)
(*   cur            the cursor of the Segment's own handle on <base>.log    *)
(*   mmap           length of the memory map taken at open, 0 when None     *)
(*   entries        Index.entries: offset -> <<position, size>>             *)
(*   icur           the cursor of the Index's handle, in entries            *)

use_mmap == TRUE

\* Segment::create and Index::create, the in-memory side
SegmentCreate(base) ==
    [base |-> base, size |-> 0, cur |-> 0, mmap |-> 0,
     entries |-> EmptyMap, icur |-> 0]

\* Segment::open and Index::open over existing files
IndexEntriesOf(icontent) ==
    LET keys == {icontent[j][1] : j \in 1..Len(icontent)}
        lastOf(k) == CHOOSE j \in 1..Len(icontent) :
                        /\ icontent[j][1] = k
                        /\ \A j2 \in 1..Len(icontent) : icontent[j2][1] = k => j2 <= j
    IN [k \in keys |-> <<icontent[lastOf(k)][2], icontent[lastOf(k)][3]>>]

SegmentOpen(base, content, icontent) ==
    [base |-> base, size |-> Len(content), cur |-> 0,
     mmap |-> IF use_mmap /\ Len(content) > 0 THEN Len(content) ELSE 0,
     entries |-> IndexEntriesOf(icontent), icur |-> Len(icontent)]

can_fit(seg, n) == seg.size + n <= SegMaxSize

\* The state of a LogStorage and its directory handed through a call:
\* [segments, log_files, index_files, write_cache, current_offset, ok];
\* ok = FALSE once the call has failed.

\* Segment::append on segment i: fails when full, else write_all at the
\* handle's cursor and grow current_size
SegmentAppend(st, i, data) ==
    LET seg == st.segments[i] IN
    IF seg.size + Len(data) > SegMaxSize THEN [st EXCEPT !.ok = FALSE]
    ELSE [st EXCEPT !.log_files[seg.base] = WriteAt(@, seg.cur, data),
                    !.segments[i].cur = seg.cur + Len(data),
                    !.segments[i].size = seg.size + Len(data)]

\* Index::append on segment i: write the entry at the handle's cursor, then
\* insert into the in-memory map
IndexAppend(st, i, offset, position, size) ==
    LET seg == st.segments[i] IN
    [st EXCEPT !.index_files[seg.base] =
                    WriteAt(@, seg.icur, << <<offset, position, size>> >>),
               !.segments[i].icur = seg.icur + 1,
               !.segments[i].entries = MapInsert(@, offset, <<position, size>>)]

\* Segment::read: [kind, data, cur] where cur is the handle's cursor after it
SegmentRead(seg, content, position, length) ==
    IF position + length > seg.size
    THEN [kind |-> "InvalidOffset", data |-> <<>>, cur |-> seg.cur]
    ELSE IF seg.mmap > 0
    THEN IF position + length > seg.mmap
         THEN [kind |-> "Panic", data |-> <<>>, cur |-> seg.cur]
         ELSE [kind |-> "Ok", data |-> SubSeq(content, position + 1, position + length),
               cur |-> seg.cur]
    ELSE IF position + length > Len(content)
    THEN [kind |-> "StorageError", data |-> <<>>,
          cur |-> Max(position, Len(content))]
    ELSE [kind |-> "Ok", data |-> SubSeq(content, position + 1, position + length),
          cur |-> position + length]

-----------------------------------------------------------------------------
(* WriteCache (write_cache.rs): push accepts a record when caching is       *)
(* enabled and the cached bytes stay within max_size; should_flush is true  *)
(* when the cached bytes reached max_size or the oldest record is older     *)
(* than max_buffer_time; drain returns the records in offset order.         *)

cache_enabled == TRUE

RECURSIVE CachedBytes(_)
CachedBytes(cache) ==
    IF cache = <<>> THEN 0 ELSE size_bytes(Head(cache)) + CachedBytes(Tail(cache))

CachePush(cache, rec) ==
    cache_enabled /\ CachedBytes(cache) + size_bytes(rec) <= CacheMaxSize

should_flush(cache, aged) ==
    cache # <<>> /\ (CachedBytes(cache) >= CacheMaxSize \/ aged)

RECURSIVE SortByOffset(_)
SortByOffset(recs) ==
    IF recs = <<>> THEN <<>>
    ELSE LET m == CHOOSE i \in 1..Len(recs) :
                    \A j \in 1..Len(recs) : recs[i].offset <= recs[j].offset
         IN <<recs[m]>> \o
            SortByOffset(SubSeq(recs, 1, m - 1) \o SubSeq(recs, m + 1, Len(recs)))

drain(cache) == SortByOffset(cache)

-----------------------------------------------------------------------------
(* LogStorage: the write path *)

\* LogStorage::roll_segment: the new segment is named by current_offset
roll_segment(st) ==
    [st EXCEPT !.log_files = CreateFile(@, st.current_offset, <<>>),
               !.index_files = CreateFile(@, st.current_offset, <<>>),
               !.segments = Append(@, SegmentCreate(st.current_offset))]

\* LogStorage::write_record
RECURSIVE write_record(_, _)
write_record(st, rec) ==
    LET data == Serialize(rec)
        last == Len(st.segments)
    IN IF ~can_fit(st.segments[last], Len(data))
       THEN write_record(roll_segment(st), rec)
       ELSE LET position == st.segments[last].size
                s1 == SegmentAppend(st, last, data)
            IN IF ~s1.ok THEN s1
               ELSE IndexAppend(s1, last, rec.offset, position, Len(data))

\* the loop of LogStorage::write_batch and of flush_cache: stops at the
\* first failed write
RECURSIVE write_records(_, _)
write_records(st, recs) ==
    IF recs = <<>> \/ ~st.ok THEN st
    ELSE write_records(write_record(st, Head(recs)), Tail(recs))

write_batch(st, recs) == write_records(st, recs)

\* flush_cache lines 237-241: Segment::sync, then Index::sync, of the last
\* segment of the list; sync_all makes the content of the file durable
sync_last(st) ==
    LET base == st.segments[Len(st.segments)].base
    IN [st EXCEPT !.synced.log = MapInsert(@, base, st.log_files[base]),
                  !.synced.index = MapInsert(@, base, st.index_files[base])]

\* LogStorage::flush_cache (and flush): drain, write each record, leave at
\* the first failed write, else sync the last segment
flush_cache(st) ==
    LET s1 == write_records([st EXCEPT !.write_cache = <<>>], drain(st.write_cache))
    IN IF s1.ok THEN sync_last(s1) ELSE s1

\* a counter that moves by one whatever the size of the batch
ReserveOne(current, count) == current + 1

\* the counter after append (count = 1, LogOffset::next) or append_batch
\* (count = batch.count()) took its offsets under the write lock
ReserveOffsets(current, count) == current + count

\* LogStorage::append; aged: the oldest cached record has reached
\* max_buffer_time when should_flush is asked
append(st, record, aged) ==
    LET offset == st.current_offset
        rec == [record EXCEPT !.offset = offset]
        s1 == [st EXCEPT !.current_offset = ReserveOffsets(offset, 1)]
    IN IF CachePush(s1.write_cache, rec)
       THEN LET s2 == [s1 EXCEPT !.write_cache = Append(@, rec)]
            IN IF should_flush(s2.write_cache, aged) THEN flush_cache(s2) ELSE s2
       ELSE LET s3 == flush_cache(s1)
            IN IF ~s3.ok THEN s3 ELSE write_record(s3, rec)

\* LogStorage::append_batch
BatchRecords(records, base_offset) ==
    [i \in 1..Len(records) |-> [records[i] EXCEPT !.offset = base_offset + i - 1]]

append_batch(st, records) ==
    LET base_offset == st.current_offset
        s1 == [st EXCEPT !.current_offset = ReserveOffsets(base_offset, Len(records))]
    IN write_batch(s1, BatchRecords(records, base_offset))

-----------------------------------------------------------------------------
(* LogStorage: read, high_watermark, open *)

\* the segment LogStorage::read takes the record from: the last one in the
\* list with base_offset <= offset whose index holds the offset; 0 if none
ReadSegment(segs, offset) ==
    LET hits == {i \in 1..Len(segs) :
                    offset >= segs[i].base /\ offset \in DOMAIN segs[i].entries}
    IN IF hits = {} THEN 0 ELSE CHOOSE i \in hits : \A j \in hits : j <= i

\* LogStorage::read: [kind, rec, segments]; kind is "None", "Some" or the
\* error; segments carries the moved cursor
NoRecord == [offset |-> 0, epoch |-> 0, value |-> <<>>]

LogRead(segs, lf, offset) ==
    LET i == ReadSegment(segs, offset) IN
    IF i = 0 THEN [kind |-> "None", rec |-> NoRecord, segments |-> segs]
    ELSE LET e == segs[i].entries[offset]
             r == SegmentRead(segs[i], lf[segs[i].base], e[1], e[2])
             moved == [segs EXCEPT ![i].cur = r.cur]
         IN IF r.kind # "Ok" THEN [kind |-> r.kind, rec |-> NoRecord, segments |-> moved]
            ELSE IF ~DeserializeOk(r.data)
            THEN [kind |-> "SerializationError", rec |-> NoRecord, segments |-> moved]
            ELSE [kind |-> "Some", rec |-> Deserialize(r.data), segments |-> moved]

\* what a read returns, without the handle
ReadResult(segs, lf, offset) ==
    LET r == LogRead(segs, lf, offset) IN [kind |-> r.kind, rec |-> r.rec]

high_watermark == current_offset

\* LogStorage::open: the .log files in name order, each with its index;
\* max_offset is the last index entry of the last segment that has one
RECURSIVE SortedNames(_)
SortedNames(S) ==
    IF S = {} THEN <<>>
    ELSE LET m == CHOOSE x \in S : \A y \in S : x <= y
         IN <<m>> \o SortedNames(S \ {m})

MaxKey(f) == CHOOSE k \in DOMAIN f : \A j \in DOMAIN f : j <= k

RECURSIVE OpenMaxOffset(_, _)
OpenMaxOffset(segs, acc) ==
    IF segs = <<>> THEN acc
    ELSE OpenMaxOffset(Tail(segs),
                       IF DOMAIN Head(segs).entries = {} THEN acc
                       ELSE MaxKey(Head(segs).entries) + 1)

LogStorageOpen(lf, xf) ==
    LET names == SortedNames(DOMAIN lf)
        segs == [i \in 1..Len(names) |->
                    SegmentOpen(names[i], lf[names[i]],
                                IF names[i] \in DOMAIN xf THEN xf[names[i]] ELSE <<>>)]
    IN [segments |-> segs, current_offset |-> OpenMaxOffset(segs, 0)]

-----------------------------------------------------------------------------
(* Epoch store and Sequencer.  Every node has its own Sequencer, whose      *)
(* partition_epochs maps a partition to its EpochStore (a list of           *)
(* EpochMetadata).  last_known_offset is <<>> for None, <<o>> for Some(o).  *)

SequencerNodes == {1, 2}
Partitions == {0, 1}
StartOffsets == {0, 2}
LastOffsets == {0, 1}

\* an Epoch::next that returns the epoch it was given
EpochNextSame(e) == e

\* Epoch::next: saturating_add(1) on a u64
EpochNext(e) == Min(e + 1, 2^(2 * OffsetBits) - 1)

\* EpochMetadata::new
EpochMetadataNew(epoch, sequencer_node, start_offset) ==
    [current_epoch |-> epoch, sequencer_node |-> sequencer_node,
     start_offset |-> start_offset, sealed |-> FALSE, last_known_offset |-> <<>>]

\* a seal that records the last offset and leaves the epoch open
MetadataSealOffsetOnly(m, last_offset) ==
    [m EXCEPT !.last_known_offset = <<last_offset>>]

\* EpochMetadata::seal
MetadataSeal(m, last_offset) ==
    [m EXCEPT !.sealed = TRUE, !.last_known_offset = <<last_offset>>]

\* EpochStore::start_epoch: the epoch it returns
StartEpochNumber(store) ==
    IF store # <<>> THEN EpochNext(store[Len(store)].current_epoch) ELSE EPOCH_FIRST

\* EpochStore::start_epoch: the store after it
start_epoch(store, sequencer_node, start_offset) ==
    Append(store, EpochMetadataNew(StartEpochNumber(store), sequencer_node, start_offset))

\* EpochStore::get_epoch / get_epoch_mut: position of the first match, 0 if none
get_epoch(store, epoch) ==
    LET hits == {i \in 1..Len(store) : store[i].current_epoch = epoch}
    IN IF hits = {} THEN 0 ELSE CHOOSE i \in hits : \A j \in hits : i <= j

\* EpochStore::seal_epoch: the store after it (unchanged when it returns false)
seal_epoch(store, epoch, last_offset) ==
    LET i == get_epoch(store, epoch)
    IN IF i = 0 THEN store ELSE [store EXCEPT ![i] = MetadataSeal(@, last_offset)]

\* EpochStore::current_epoch: <<>> for None
store_current_epoch(store) ==
    IF store = <<>> THEN <<>> ELSE <<store[Len(store)].current_epoch>>

\* partition_epochs.entry(partition).or_insert_with(EpochStore::new)
StoreOf(node, partition) ==
    IF partition \in DOMAIN partition_epochs[node]
    THEN partition_epochs[node][partition] ELSE <<>>

\* Sequencer::can_write
can_write(node, partition, epoch) ==
    /\ partition \in DOMAIN partition_epochs[node]
    /\ get_epoch(partition_epochs[node][partition], epoch) # 0
    /\ ~partition_epochs[node][partition]
            [get_epoch(partition_epochs[node][partition], epoch)].sealed

EpochsStarted ==
    LET pairs == {<<n, q>> : n \in SequencerNodes, q \in Partitions}
        RECURSIVE Sum(_)
        Sum(S) == IF S = {} THEN 0
                  ELSE LET x == CHOOSE y \in S : TRUE
                       IN Len(StoreOf(x[1], x[2])) + Sum(S \ {x})
    IN Sum(pairs)

\* the highest epoch of the partition that another node's Sequencer holds
\* sealed, 0 if there is none
SealedElsewhere(node, partition) ==
    LET sealed == {StoreOf(n, partition)[i].current_epoch :
                      <<n, i>> \in {<<n2, i2>> \in (SequencerNodes \ {node}) \X (1..MaxEpochs) :
                                       /\ i2 <= Len(StoreOf(n2, partition))
                                       /\ StoreOf(n2, partition)[i2].sealed}}
    IN IF sealed = {} THEN 0 ELSE CHOOSE e \in sealed : \A f \in sealed : f <= e

-----------------------------------------------------------------------------
(* Raft node.  A node of the model holds NodeState (role, the persistent    *)
(* current_term, voted_for, log and the volatile commit_index) and the      *)
(* position of its election task: between the two times start_election     *)
(* takes the state lock, pc is "election" before the save_state of line 284 *)
(* and "votes" after it; term is the term it remembered.  raft_log holds    *)
(* the PersistentState each node saved last in its file.                    *)
(* voted_for and leader are <<>> for None, <<x>> for Some(x).  A log entry  *)
(* is                                                                       *)
(* [term, index]; the entry with index i of a well-formed log is log[i].    *)

cluster_nodes == <<1, 2, 3>>
RaftNodes == {cluster_nodes[i] : i \in 1..Len(cluster_nodes)}

\* NodeState::new over PersistentState::default and VolatileState::default
NodeStateNew ==
    [role |-> "Follower", current_term |-> 0, voted_for |-> <<>>,
     log |-> <<>>, commit_index |-> 0, leader |-> <<>>,
     pc |-> "idle", term |-> 0]

\* PersistentState::default, which load_state returns for an empty file
PersistentStateDefault ==
    [current_term |-> 0, voted_for |-> <<>>, log |-> <<>>]

\* NodeState.persistent, the part save_state writes
PersistentOf(s) ==
    [current_term |-> s.current_term, voted_for |-> s.voted_for, log |-> s.log]

\* a become_follower that keeps the vote and the leader state
become_follower_keeping(s, term) ==
    [s EXCEPT !.role = "Follower", !.current_term = term]

\* NodeState::become_follower
become_follower(s, term) ==
    [s EXCEPT !.role = "Follower", !.current_term = term, !.voted_for = <<>>,
              !.leader = <<>>]

\* NodeState::become_candidate
become_candidate(s, node_id) ==
    [s EXCEPT !.role = "Candidate", !.current_term = @ + 1,
              !.voted_for = <<node_id>>, !.leader = <<>>]

\* LeaderState::new
LeaderStateNew(cluster_size, last_index) ==
    [next_index |-> [i \in 1..cluster_size |-> last_index + 1],
     match_index |-> [i \in 1..cluster_size |-> 0]]

\* NodeState::become_leader
become_leader(s, cluster_size) ==
    [s EXCEPT !.role = "Leader",
              !.leader = <<LeaderStateNew(cluster_size, Len(s.log))>>]

\* NodeState::last_log_index: log.len().saturating_sub(1)
last_log_index(log) == IF Len(log) = 0 THEN 0 ELSE Len(log) - 1

\* NodeState::last_log_term
last_log_term(log) == IF log = <<>> THEN 0 ELSE log[Len(log)].term

\* start_election: the majority of the configured cluster
majority == (Len(cluster_nodes) \div 2) + 1

\* a candidate that counts a majority whoever it is
VotesOfAnyCandidate(candidate_id) == majority

\* start_election: the votes the candidate counts, its own and, for the
\* first node of cluster_nodes, a simulated majority
VotesCounted(candidate_id) ==
    IF candidate_id = cluster_nodes[1] THEN majority ELSE 1

\* start_election after it took the state lock again
ElectionOutcome(s, node_id) ==
    IF /\ VotesCounted(node_id) >= majority
       /\ s.role = "Candidate"
       /\ s.current_term = s.term
    THEN become_leader(s, Len(cluster_nodes)) ELSE s

\* handle_append_entries: the loop over request.entries
RECURSIVE AppendNewEntries(_, _)
AppendNewEntries(log, entries) ==
    IF entries = <<>> THEN log
    ELSE LET entry == Head(entries)
             next == IF entry.index > Len(log) THEN Append(log, entry)
                     ELSE IF log[entry.index].term # entry.term
                          THEN Append(SubSeq(log, 1, entry.index - 1), entry)
                          ELSE log
         IN AppendNewEntries(next, Tail(entries))

\* handle_append_entries: the node after the call
handle_append_entries(s, request) ==
    IF request.term < s.current_term THEN s
    ELSE LET s1 == IF request.term > s.current_term
                   THEN become_follower(s, request.term) ELSE s
         IN IF request.prev_log_index > 0 /\ request.prev_log_index > Len(s1.log)
            THEN s1
            ELSE IF /\ request.prev_log_index > 0
                    /\ s1.log[request.prev_log_index].term # request.prev_log_term
                 THEN [s1 EXCEPT !.log = SubSeq(@, 1, request.prev_log_index)]
                 ELSE LET log2 == AppendNewEntries(s1.log, request.entries)
                      IN [s1 EXCEPT !.log = log2,
                                    !.commit_index =
                                        IF request.leader_commit > @
                                        THEN Min(request.leader_commit,
                                                 last_log_index(log2))
                                        ELSE @]

\* handle_append_entries: the call passes a save_state (lines 139 and 162)
AppendEntriesSaves(s, request) ==
    /\ request.term >= s.current_term
    /\ ~(request.prev_log_index > 0 /\ request.prev_log_index > Len(s.log))

\* handle_append_entries: AppendEntriesResponse.success
AppendEntriesSuccess(s, request) ==
    /\ request.term >= s.current_term
    /\ request.prev_log_index > 0 =>
           /\ request.prev_log_index <= Len(s.log)
           /\ s.log[request.prev_log_index].term = request.prev_log_term

\* a vote granted whatever voted_for holds
VoteGrantedAgain(s, request) ==
    /\ request.term >= s.current_term
    /\ \/ request.last_log_term > last_log_term(s.log)
       \/ /\ request.last_log_term = last_log_term(s.log)
          /\ request.last_log_index >= last_log_index(s.log)

\* handle_vote_request: VoteResponse.vote_granted
VoteGranted(s, request) ==
    /\ request.term >= s.current_term
    /\ LET voted_for == IF request.term > s.current_term THEN <<>> ELSE s.voted_for
       IN /\ voted_for = <<>> \/ voted_for = <<request.candidate_id>>
          /\ \/ request.last_log_term > last_log_term(s.log)
             \/ /\ request.last_log_term = last_log_term(s.log)
                /\ request.last_log_index >= last_log_index(s.log)

\* handle_vote_request: the node after the call
handle_vote_request(s, request) ==
    IF request.term < s.current_term THEN s
    ELSE LET s1 == IF request.term > s.current_term
                   THEN become_follower(s, request.term) ELSE s
         IN IF VoteGranted(s, request)
            THEN [s1 EXCEPT !.voted_for = <<request.candidate_id>>]
            ELSE s1

\* propose on a Leader: the entry pushed has index last_log_index() + 1
propose(s) ==
    [s EXCEPT !.log = Append(@, [term |-> s.current_term,
                                 index |-> last_log_index(s.log) + 1])]

-----------------------------------------------------------------------------
(* One LogStorage, calls one after the other *)

Storage ==
    [segments |-> segments, log_files |-> log_files, index_files |-> index_files,
     write_cache |-> write_cache, current_offset |-> current_offset,
     synced |-> synced_files, ok |-> TRUE]

Install(st) ==
    /\ segments' = st.segments
    /\ log_files' = st.log_files
    /\ index_files' = st.index_files
    /\ write_cache' = st.write_cache
    /\ current_offset' = st.current_offset

otherVars == <<partition_epochs, epoch_calls, raft, raft_log, cluster, node_offsets, responses,
               moreVars, laterVars>>

Tasks == {1, 2}

\* the tasks that call the waits of the SyncManager, none of them in a call
Waiters == {"quorum", "offset"}

IdleWaiter ==
    [pc |-> "idle", nodes |-> <<>>, target |-> 0, quorum_size |-> 0,
     seen |-> <<>>, notifier |-> 0, notified |-> FALSE]

NoCall == [op |-> "none", args |-> <<>>, ret |-> <<>>]

\* ---- QuorumSet

\* the replica sets a QuorumSet is created for, and the node ids that answer
QuorumNodeSets == {<<1, 2, 3>>, <<1, 2>>}
ResponseNodes == 1..4

\* QuorumSet::new
QuorumSetNew(all_nodes, target) ==
    [all_nodes |-> all_nodes, required_nodes |-> {}, responses |-> 0,
     target |-> target]

\* Vec::contains
Contains(seq, x) == \E i \in 1..Len(seq) : seq[i] = x

\* QuorumSet::add_response: the set after the call
add_response(q, node_id) ==
    IF Contains(q.all_nodes, node_id)
    THEN [q EXCEPT !.required_nodes = @ \cup {node_id},
                   !.responses = @ + 1]
    ELSE q

\* QuorumSet::is_satisfied
is_satisfied(q) == q.responses >= q.target

\* a task outside get_copyset
IdleCopysetTask == [pc |-> "idle", partition |-> 0, copyset |-> <<>>]

\* a task outside get_or_create_storage
IdleStorageTask == [pc |-> "idle", key |-> <<>>, instance |-> 0]

IdleTask ==
    [pc |-> "idle", mine |-> <<>>, todo |-> <<>>, after |-> "ret", seg |-> 0,
     pos |-> 0, base |-> 0, rolls |-> 0]

\* LogStorage::create, idle tasks, and every other component as constructed
Init ==
    /\ log_files = (0 :> <<>>)
    /\ index_files = (0 :> <<>>)
    /\ segments = <<SegmentCreate(0)>>
    /\ write_cache = <<>>
    /\ current_offset = 0
    /\ acked = {}
    /\ handed = <<>>
    /\ flushed = FALSE
    /\ synced_files = [log |-> EmptyMap, index |-> EmptyMap]
    /\ task = [t \in Tasks |-> IdleTask]
    /\ partition_epochs = [n \in SequencerNodes |-> EmptyMap]
    /\ epoch_calls = {}
    /\ raft = [n \in RaftNodes |-> NodeStateNew]
    /\ raft_log = [n \in RaftNodes |-> PersistentStateDefault]
    /\ cluster = [logs |-> {}, partition_assignments |-> EmptyMap]
    /\ node_offsets = EmptyMap
    /\ responses = {}
    /\ notifiers = {}
    /\ waiters = [w \in Waiters |-> IdleWaiter]
    /\ appended = <<>>
    /\ quorum_set = QuorumSetNew(<<1, 2, 3>>, 2)
    /\ partition_copysets = EmptyMap
    /\ copyset_usage = EmptyMap
    /\ copyset_task = [t \in Tasks |-> IdleCopysetTask]
    /\ copyset_returns = {}
    /\ remote_files = EmptyMap
    /\ archive_call = <<>>
    /\ storage_map = EmptyMap
    /\ instances = <<>>
    /\ storage_task = [t \in Tasks |-> IdleStorageTask]
    /\ storage_returns = {}
    /\ last_call = NoCall

InputRecord(in) == with_epoch(RecordNew(in[1]), in[2])

Batches == UNION {[1..n -> {InputRecord(in) : in \in Inputs}] : n \in 0..MaxBatch}

CallAppend(record) ==
    /\ current_offset < MaxOffset
    /\ \E aged \in BOOLEAN :
          LET st == append(Storage, record, aged)
              rec == [record EXCEPT !.offset = current_offset]
          IN /\ Install(st)
             /\ handed' = Append(handed, <<current_offset, 1>>)
             /\ acked' = IF st.ok THEN acked \cup {rec} ELSE acked
             /\ flushed' = FALSE
             /\ synced_files' = st.synced
    /\ UNCHANGED <<task, otherVars>>

CallAppendBatch(records) ==
    /\ current_offset + Len(records) <= MaxOffset
    /\ LET st == append_batch(Storage, records)
       IN /\ Install(st)
          /\ handed' = IF records = <<>> THEN handed
                        ELSE Append(handed, <<current_offset, Len(records)>>)
          /\ acked' = IF st.ok
                      THEN acked \cup
                           {BatchRecords(records, current_offset)[i] : i \in 1..Len(records)}
                      ELSE acked
          /\ flushed' = FALSE
          /\ synced_files' = st.synced
    /\ UNCHANGED <<task, otherVars>>

CallFlush ==
    /\ LET st == flush_cache(Storage)
       IN /\ Install(st)
          /\ flushed' = st.ok
          /\ synced_files' = st.synced
    /\ UNCHANGED <<acked, handed>>
    /\ UNCHANGED <<task, otherVars>>

CallRead(offset) ==
    /\ segments' = LogRead(segments, log_files, offset).segments
    /\ UNCHANGED <<log_files, index_files, write_cache, current_offset, acked, handed,
                   flushed, synced_files>>
    /\ UNCHANGED <<task, otherVars>>

NextStorage ==
    \/ \E in \in Inputs : CallAppend(InputRecord(in))
    \/ \E b \in Batches : CallAppendBatch(b)
    \/ CallFlush
    \/ \E k \in 0..MaxOffset : CallRead(k)

SpecStorage == Init /\ [][NextStorage]_vars

-----------------------------------------------------------------------------
(* One LogStorage, the calls of two tasks interleaved.  A step is what a    *)
(* call does under one acquisition of a lock: current_offset (its RwLock),  *)
(* the write cache (its own lock), a segment file, an index.  write_record  *)
(* holds the read lock on the segment list from its can_fit check to its    *)
(* index append; roll_segment pushes under the write lock.                  *)
(*   pc     idle, push, drain, fit, seg, idx, roll, push_seg                *)
(*   mine   the records of the call, acknowledged if it returns Ok          *)
(*   todo   the records write_batch / flush_cache still has to write        *)
(*   after  "own": append writes its own record after the flush             *)
(*   seg    current_segment of write_record; pos: what Segment::append      *)
(*          returned; base: what roll_segment read from current_offset      *)
(*   rolls  the roll_segment calls write_record has made for the record it  *)
(*          is writing                                                      *)

HoldsSegmentsRead(t) == task[t].pc \in {"seg", "idx"}

\* the call of task tk returns Ok
Returned(t, tk) ==
    /\ task' = [task EXCEPT ![t] = IdleTask]
    /\ acked' = acked \cup {tk.mine[i] : i \in 1..Len(tk.mine)}

\* the call of task t returns the error of a failed write
Failed(t) ==
    /\ task' = [task EXCEPT ![t] = IdleTask]
    /\ UNCHANGED acked

\* after the write loop: append's own record, or the return.  The sync_all
\* calls that end flush_cache write no field of LogStorage; what they make
\* durable is followed by the sequential calls (synced_files), not by the
\* interleaved steps
LoopDone(t, tk) ==
    IF tk.after = "own"
    THEN /\ task' = [task EXCEPT ![t] = [tk EXCEPT !.todo = tk.mine, !.after = "ret",
                                                   !.pc = "fit", !.rolls = 0]]
         /\ UNCHANGED acked
    ELSE Returned(t, tk)

\* append: the offset under current_offset's write lock
TaskAppendAssign(t, record) ==
    /\ task[t].pc = "idle"
    /\ current_offset < MaxConcOffset
    /\ current_offset' = ReserveOffsets(current_offset, 1)
    /\ handed' = Append(handed, <<current_offset, 1>>)
    /\ task' = [task EXCEPT ![t] =
                  [IdleTask EXCEPT !.pc = "push",
                                   !.mine = <<[record EXCEPT !.offset = current_offset]>>]]
    /\ UNCHANGED <<log_files, index_files, segments, write_cache, acked, flushed, synced_files>>
    /\ UNCHANGED otherVars

\* append: write_cache.push, then should_flush
TaskAppendPush(t) ==
    /\ task[t].pc = "push"
    /\ LET rec == task[t].mine[1] IN
       IF CachePush(write_cache, rec)
       THEN /\ write_cache' = Append(write_cache, rec)
            /\ \E aged \in BOOLEAN :
                 IF should_flush(write_cache', aged)
                 THEN /\ task' = [task EXCEPT ![t].pc = "drain", ![t].after = "ret"]
                      /\ UNCHANGED acked
                 ELSE Returned(t, task[t])
       ELSE /\ task' = [task EXCEPT ![t].pc = "drain", ![t].after = "own"]
            /\ UNCHANGED <<write_cache, acked>>
    /\ UNCHANGED <<log_files, index_files, segments, current_offset, handed, flushed, synced_files>>
    /\ UNCHANGED otherVars

\* append_batch: the offsets under current_offset's write lock
TaskBatchAssign(t, records) ==
    /\ task[t].pc = "idle"
    /\ records # <<>>
    /\ current_offset + Len(records) <= MaxConcOffset
    /\ current_offset' = ReserveOffsets(current_offset, Len(records))
    /\ handed' = Append(handed, <<current_offset, Len(records)>>)
    /\ LET recs == BatchRecords(records, current_offset)
       IN task' = [task EXCEPT ![t] =
                     [IdleTask EXCEPT !.pc = "fit", !.mine = recs, !.todo = recs]]
    /\ UNCHANGED <<log_files, index_files, segments, write_cache, acked, flushed, synced_files>>
    /\ UNCHANGED otherVars

\* flush
TaskFlush(t) ==
    /\ task[t].pc = "idle"
    /\ write_cache # <<>>
    /\ task' = [task EXCEPT ![t] = [IdleTask EXCEPT !.pc = "drain"]]
    /\ UNCHANGED storageVars
    /\ UNCHANGED otherVars

\* flush_cache: write_cache.drain()
TaskDrain(t) ==
    /\ task[t].pc = "drain"
    /\ write_cache' = <<>>
    /\ LET tk == [task[t] EXCEPT !.todo = drain(write_cache), !.pc = "fit"]
       IN IF tk.todo = <<>> THEN LoopDone(t, tk)
          ELSE task' = [task EXCEPT ![t] = tk] /\ UNCHANGED acked
    /\ UNCHANGED <<log_files, index_files, segments, current_offset, handed, flushed, synced_files>>
    /\ UNCHANGED otherVars

\* write_record: segments.read(), last segment, can_fit
TaskFit(t) ==
    /\ task[t].pc = "fit"
    /\ LET last == Len(segments)
           data == Serialize(Head(task[t].todo))
       IN IF can_fit(segments[last], Len(data))
          THEN task' = [task EXCEPT ![t].pc = "seg", ![t].seg = last]
          ELSE task' = [task EXCEPT ![t].pc = "roll"]
    /\ UNCHANGED storageVars
    /\ UNCHANGED otherVars

\* roll_segment: read current_offset
TaskRollRead(t) ==
    /\ task[t].pc = "roll"
    /\ task' = [task EXCEPT ![t].pc = "push_seg", ![t].base = current_offset]
    /\ UNCHANGED storageVars
    /\ UNCHANGED otherVars

\* roll_segment: Segment::create, Index::create, push under segments.write()
TaskRollPush(t) ==
    /\ task[t].pc = "push_seg"
    /\ Len(segments) < MaxSegments
    /\ \A u \in Tasks : ~HoldsSegmentsRead(u)
    /\ LET st == roll_segment([Storage EXCEPT !.current_offset = task[t].base])
       IN /\ segments' = st.segments
          /\ log_files' = st.log_files
          /\ index_files' = st.index_files
    /\ task' = [task EXCEPT ![t].pc = "fit", ![t].rolls = @ + 1]
    /\ UNCHANGED <<write_cache, current_offset, acked, handed, flushed, synced_files>>
    /\ UNCHANGED otherVars

\* write_record: current_segment.segment.append(&data)
TaskSegAppend(t) ==
    /\ task[t].pc = "seg"
    /\ LET i == task[t].seg
           st == SegmentAppend(Storage, i, Serialize(Head(task[t].todo)))
       IN IF st.ok
          THEN /\ segments' = st.segments
               /\ log_files' = st.log_files
               /\ task' = [task EXCEPT ![t].pc = "idx", ![t].pos = segments[i].size]
               /\ UNCHANGED acked
          ELSE /\ Failed(t)
               /\ UNCHANGED <<segments, log_files>>
    /\ UNCHANGED <<index_files, write_cache, current_offset, handed, flushed, synced_files>>
    /\ UNCHANGED otherVars

\* write_record: current_segment.index.append(offset, position, len)
TaskIdxAppend(t) ==
    /\ task[t].pc = "idx"
    /\ LET rec == Head(task[t].todo)
           st == IndexAppend(Storage, task[t].seg, rec.offset, task[t].pos,
                             Len(Serialize(rec)))
           tk == [task[t] EXCEPT !.todo = Tail(@), !.pc = "fit", !.seg = 0, !.pos = 0,
                                 !.rolls = 0]
       IN /\ segments' = st.segments
          /\ index_files' = st.index_files
          /\ IF tk.todo = <<>> THEN LoopDone(t, tk)
             ELSE task' = [task EXCEPT ![t] = tk] /\ UNCHANGED acked
    /\ UNCHANGED <<log_files, write_cache, current_offset, handed, flushed, synced_files>>
    /\ UNCHANGED otherVars

NextConc ==
    \E t \in Tasks :
        \/ \E in \in Inputs : TaskAppendAssign(t, InputRecord(in))
        \/ TaskAppendPush(t)
        \/ \E b \in Batches : TaskBatchAssign(t, b)
        \/ TaskFlush(t)
        \/ TaskDrain(t)
        \/ TaskFit(t)
        \/ TaskRollRead(t)
        \/ TaskRollPush(t)
        \/ TaskSegAppend(t)
        \/ TaskIdxAppend(t)

SpecConc == Init /\ [][NextConc]_vars

-----------------------------------------------------------------------------
(* One LogStorage and the calls of one task, a step at a time, among them   *)
(* the append of a record whose serialized size is above the max_size of a  *)
(* segment.                                                                 *)

\* a value that alone is as long as a segment may grow
OversizeInput == <<[i \in 1..SegMaxSize |-> 1], 1>>

\* the task that makes the calls
WriterTask == CHOOSE t \in Tasks : \A u \in Tasks : t <= u

NextOversize ==
    \/ \E in \in Inputs \cup {OversizeInput} :
           TaskAppendAssign(WriterTask, InputRecord(in))
    \/ TaskAppendPush(WriterTask)
    \/ \E b \in Batches : TaskBatchAssign(WriterTask, b)
    \/ TaskFlush(WriterTask)
    \/ TaskDrain(WriterTask)
    \/ TaskFit(WriterTask)
    \/ TaskRollRead(WriterTask)
    \/ TaskRollPush(WriterTask)
    \/ TaskSegAppend(WriterTask)
    \/ TaskIdxAppend(WriterTask)

SpecOversize == Init /\ [][NextOversize]_vars

-----------------------------------------------------------------------------
(* The Sequencers of two nodes.  epoch_calls keeps, for every activate      *)
(* that returned, the node, the partition, the epoch it returned and the    *)
(* highest epoch of that partition sealed on another node at that time.     *)

\* Sequencer::activate
Activate(node, partition, start_offset) ==
    /\ EpochsStarted < MaxEpochs
    /\ partition_epochs' = [partition_epochs EXCEPT ![node] =
           MapInsert(@, partition,
                     start_epoch(StoreOf(node, partition), node, start_offset))]
    /\ epoch_calls' = epoch_calls \cup
           {[node |-> node, partition |-> partition,
             epoch |-> StartEpochNumber(StoreOf(node, partition)),
             sealed_elsewhere |-> SealedElsewhere(node, partition)]}
    /\ UNCHANGED <<moreVars, storageVars, task, laterVars, raft, raft_log, cluster, node_offsets, responses>>

\* Sequencer::seal_epoch: true when the partition and the epoch are known
SealReturns(node, partition, epoch) ==
    /\ partition \in DOMAIN partition_epochs[node]
    /\ get_epoch(partition_epochs[node][partition], epoch) # 0

\* Sequencer::seal_epoch
SealEpoch(node, partition, epoch, last_offset) ==
    /\ partition_epochs' =
           IF SealReturns(node, partition, epoch)
           THEN [partition_epochs EXCEPT ![node][partition] =
                     seal_epoch(@, epoch, last_offset)]
           ELSE partition_epochs
    /\ UNCHANGED <<moreVars, storageVars, task, laterVars, epoch_calls, raft, raft_log, cluster, node_offsets, responses>>

NextEpoch ==
    \/ \E n \in SequencerNodes, q \in Partitions, o \in StartOffsets :
           Activate(n, q, o)
    \/ \E n \in SequencerNodes, q \in Partitions, e \in 0..MaxEpochs,
          o \in LastOffsets : SealEpoch(n, q, e, o)

SpecEpoch == Init /\ [][NextEpoch]_vars

-----------------------------------------------------------------------------
(* The Raft nodes.  The election timer and the two RPC handlers run on a    *)
(* node; a request that arrives is any request with terms and indices       *)
(* inside the bounds, its entries numbered from prev_log_index + 1.         *)
(*   SpecRaft      every node of the cluster: elections, vote requests and  *)
(*                 the heartbeats send_heartbeats builds                    *)
(*   SpecRaftLog   one node: elections, propose, every vote request and     *)
(*                 every AppendEntries request, with entries                *)

\* the entries of a request of a term: numbered from first_index, none of
\* a term above the request's
LogEntries(first_index, term) ==
    UNION {{[k \in 1..n |-> [term |-> t[k], index |-> first_index + k - 1]] :
               t \in [1..n -> 1..term]} : n \in 0..MaxEntries}

AppendEntriesRequests ==
    UNION {{[term |-> t, prev_log_index |-> pi, prev_log_term |-> pt,
             entries |-> es, leader_commit |-> lc] :
               pt \in (IF pi = 0 THEN {0} ELSE 1..t), lc \in 0..MaxLogLen,
               es \in LogEntries(pi + 1, t)} :
           t \in 0..MaxTerm, pi \in 0..MaxLogLen}

VoteRequests ==
    [term : 0..MaxTerm, candidate_id : RaftNodes,
     last_log_index : {0, MaxLogLen}, last_log_term : {0, MaxTerm}]

\* run_election_timer finds the timeout elapsed and the node not Leader;
\* start_election up to the drop of the state lock
ElectionTimeout(n) ==
    /\ raft[n].pc = "idle"
    /\ raft[n].role # "Leader"
    /\ raft[n].current_term < MaxTerm
    /\ raft' = [raft EXCEPT ![n] =
           [become_candidate(@, n) EXCEPT !.pc = "election",
                                          !.term = raft[n].current_term + 1]]
    /\ UNCHANGED raft_log
    /\ UNCHANGED <<moreVars, storageVars, task, laterVars, partition_epochs, epoch_calls,
                   cluster, node_offsets, responses>>

\* start_election line 284: the persistent state read after the drop of
\* the lock is saved
ElectionSave(n) ==
    /\ raft[n].pc = "election"
    /\ raft' = [raft EXCEPT ![n].pc = "votes"]
    /\ raft_log' = [raft_log EXCEPT ![n] = PersistentOf(raft[n])]
    /\ UNCHANGED <<moreVars, storageVars, task, laterVars, partition_epochs, epoch_calls,
                   cluster, node_offsets, responses>>

\* start_election from the count of the votes to its end
ElectionDecide(n) ==
    /\ raft[n].pc = "votes"
    /\ raft' = [raft EXCEPT ![n] =
           [ElectionOutcome(@, n) EXCEPT !.pc = "idle", !.term = 0]]
    /\ raft_log' = IF ElectionOutcome(raft[n], n).role = "Leader"
                   THEN [raft_log EXCEPT ![n] = PersistentOf(raft[n])]
                   ELSE raft_log
    /\ UNCHANGED <<moreVars, storageVars, task, laterVars, partition_epochs, epoch_calls,
                   cluster, node_offsets, responses>>

\* RaftNode::handle_append_entries on the node and its file
AppendEntriesStep(n, request) ==
    /\ raft[n].pc # "stopped"
    /\ Len(handle_append_entries(raft[n], request).log) <= MaxLogLen
    /\ raft' = [raft EXCEPT ![n] = handle_append_entries(@, request)]
    /\ raft_log' = IF AppendEntriesSaves(raft[n], request)
                   THEN [raft_log EXCEPT ![n] =
                            PersistentOf(handle_append_entries(raft[n], request))]
                   ELSE raft_log

\* RaftNode::handle_append_entries
HandleAppendEntries(n, request) ==
    /\ AppendEntriesStep(n, request)
    /\ UNCHANGED <<moreVars, storageVars, task, laterVars, partition_epochs, epoch_calls,
                   cluster, node_offsets, responses>>

\* RaftNode::handle_vote_request on the node and its file: save_state
\* is called on the granting path only
VoteRequestStep(n, request) ==
    /\ raft[n].pc # "stopped"
    /\ raft' = [raft EXCEPT ![n] = handle_vote_request(@, request)]
    /\ raft_log' = IF VoteGranted(raft[n], request)
                   THEN [raft_log EXCEPT ![n] =
                            PersistentOf(handle_vote_request(raft[n], request))]
                   ELSE raft_log

\* RaftNode::handle_vote_request
HandleVoteRequest(n, request) ==
    /\ VoteRequestStep(n, request)
    /\ UNCHANGED <<moreVars, storageVars, task, laterVars, partition_epochs, epoch_calls,
                   cluster, node_offsets, responses>>

\* RaftNode::propose on a Leader, with its save_state
Propose(n) ==
    /\ raft[n].pc # "stopped"
    /\ raft[n].role = "Leader"
    /\ Len(raft[n].log) < MaxLogLen
    /\ raft' = [raft EXCEPT ![n] = propose(@)]
    /\ raft_log' = [raft_log EXCEPT ![n] = PersistentOf(propose(raft[n]))]
    /\ UNCHANGED <<moreVars, storageVars, task, laterVars, partition_epochs, epoch_calls,
                   cluster, node_offsets, responses>>

\* send_heartbeats: the request of a leader of any term whose log is empty
Heartbeats ==
    {[term |-> t, prev_log_index |-> last_log_index(<<>>),
      prev_log_term |-> last_log_term(<<>>), entries |-> <<>>,
      leader_commit |-> 0] : t \in 0..MaxTerm}

\* start_election lines 275-280: the requests of candidates whose log is
\* empty, as every log of SpecRaft is; become_candidate has raised the
\* term above 0
EmptyLogVoteRequests ==
    {request \in VoteRequests :
        /\ request.term > 0
        /\ request.last_log_index = last_log_index(<<>>)
        /\ request.last_log_term = last_log_term(<<>>)}

NextRaft ==
    \/ \E n \in RaftNodes : ElectionTimeout(n)
    \/ \E n \in RaftNodes : ElectionSave(n)
    \/ \E n \in RaftNodes : ElectionDecide(n)
    \/ \E n \in RaftNodes, request \in Heartbeats :
           HandleAppendEntries(n, request)
    \/ \E n \in RaftNodes, request \in EmptyLogVoteRequests :
           HandleVoteRequest(n, request)

SpecRaft == Init /\ [][NextRaft]_vars

\* the process of a node stops: its timers and handlers run no more
StopLeader(n) ==
    /\ raft[n].role = "Leader"
    /\ \A m \in RaftNodes : raft[m].pc # "stopped"
    /\ raft' = [raft EXCEPT ![n].pc = "stopped"]
    /\ UNCHANGED raft_log
    /\ UNCHANGED <<moreVars, storageVars, task, laterVars, partition_epochs, epoch_calls,
                   cluster, node_offsets, responses>>

\* the request of a running candidate (start_election lines 277-280: its
\* term, last_log_index, last_log_term and id) reaches a node that runs
VoteRequestArrives(n, request) ==
    /\ raft[n].pc # "stopped"
    /\ request.candidate_id # n
    /\ LET c == raft[request.candidate_id]
       IN /\ c.pc # "stopped"
          /\ c.role = "Candidate"
          /\ request.term = c.current_term
          /\ request.last_log_index = last_log_index(c.log)
          /\ request.last_log_term = last_log_term(c.log)
    /\ HandleVoteRequest(n, request)

NextRaftLive ==
    \/ \E n \in RaftNodes : ElectionTimeout(n)
    \/ \E n \in RaftNodes : ElectionSave(n)
    \/ \E n \in RaftNodes : ElectionDecide(n)
    \/ \E n \in RaftNodes : StopLeader(n)
    \/ \E n \in RaftNodes, request \in VoteRequests : VoteRequestArrives(n, request)

\* run_election_timer is a task that loops for as long as its node runs: an
\* election timer that stays due fires, and a started election ends
SpecRaftLive ==
    /\ Init
    /\ [][NextRaftLive]_vars
    /\ \A n \in RaftNodes : /\ WF_vars(ElectionTimeout(n))
                              /\ WF_vars(ElectionSave(n))
                              /\ WF_vars(ElectionDecide(n))

\* the node SpecRaftLog follows
LogNode == cluster_nodes[1]

NextRaftLog ==
    \/ ElectionTimeout(LogNode)
    \/ ElectionSave(LogNode)
    \/ ElectionDecide(LogNode)
    \/ Propose(LogNode)
    \/ \E request \in AppendEntriesRequests :
           HandleAppendEntries(LogNode, request)
    \/ \E request \in VoteRequests : HandleVoteRequest(LogNode, request)

SpecRaftLog == Init /\ [][NextRaftLog]_vars

-----------------------------------------------------------------------------
(* DLogServer::produce on the node of the server, over the LogStorage of    *)
(* the partition (get_or_create_storage: LogStorage::create on first use),  *)
(* the ClusterManager and the ReplicationManager of the node.  The code     *)
(* that fills ClusterManager.partition_assignments is not in the sources;   *)
(* AssignPartition installs the mapping the consensus layer provides.       *)
(* DLogServer holds no Sequencer: the epoch stores stay as constructed.     *)
(* responses holds the ProduceResponse of the last produce that returned    *)
(* Ok, with what the node held when it returned.                            *)

ServerNode == 1
LogIds == {"orders"}
ServerPartition == 0
replication_factor == 3
write_quorum == (replication_factor \div 2) + 1
AckModes == {"None", "Leader", "All"}
Assignments == {<<1, 2, 3>>, <<2, 1, 3>>}

\* ClusterManager::create_log
CreateLog(log_id) ==
    /\ cluster' = [cluster EXCEPT !.logs = @ \cup {log_id}]
    /\ UNCHANGED <<moreVars, storageVars, task, laterVars, partition_epochs, epoch_calls, raft, raft_log,
                   node_offsets, responses>>

\* the partition's nodes as the consensus layer assigns them
AssignPartition(partition, nodes) ==
    /\ cluster' = [cluster EXCEPT !.partition_assignments =
                       MapInsert(@, partition, nodes)]
    /\ UNCHANGED <<moreVars, storageVars, task, laterVars, partition_epochs, epoch_calls, raft, raft_log,
                   node_offsets, responses>>

\* ClusterManager::is_partition_leader
is_partition_leader(partition) ==
    /\ partition \in DOMAIN cluster.partition_assignments
    /\ cluster.partition_assignments[partition] # <<>>
    /\ cluster.partition_assignments[partition][1] = ServerNode

\* produce: the loop that converts and appends the records of the request;
\* it ends at the first append that fails
RECURSIVE ProduceAppend(_, _, _)
ProduceAppend(st, values, ages) ==
    IF values = <<>> \/ ~st.ok THEN st
    ELSE ProduceAppend(append(st, RecordNew(Head(values)), Head(ages)),
                       Tail(values), Tail(ages))

\* the records produce has appended, as LogStorage::append numbered them
ProducedRecords(values, base_offset) ==
    BatchRecords([i \in 1..Len(values) |-> RecordNew(values[i])], base_offset)

\* SyncManager::update_offset
update_offset(offsets, node_id, offset) == MapInsert(offsets, node_id, offset)

\* the nodes whose replicated offset is at or beyond the offset
NodesAtOrBeyond(offset) ==
    {n \in DOMAIN node_offsets : node_offsets[n] >= offset}

\* DLogServer::produce; ages: for each record, whether the oldest cached
\* record has reached max_buffer_time when append asks should_flush
Produce(log_id, values, acks, ages) ==
    /\ current_offset + Len(values) <= MaxOffset
    /\ IF \/ log_id \notin cluster.logs
          \/ ~is_partition_leader(ServerPartition)
       THEN UNCHANGED <<storageVars, responses>>
       ELSE LET s1 == ProduceAppend(Storage, values, ages)
                s2 == IF s1.ok /\ values # <<>> /\ acks \in {"Leader", "All"}
                      THEN flush_cache(s1) ELSE s1
                ok == s2.ok /\ values # <<>>
                last_offset == current_offset + Len(values) - 1
            IN /\ Install(s2)
               /\ handed' = handed \o
                      [i \in 1..(s1.current_offset - current_offset) |->
                          <<current_offset + i - 1, 1>>]
               /\ acked' = IF ok
                           THEN acked \cup
                                {ProducedRecords(values, current_offset)[i] :
                                    i \in 1..Len(values)}
                           ELSE acked
               /\ flushed' = (ok /\ acks \in {"Leader", "All"})
               /\ synced_files' = s2.synced
               /\ responses' =
                      IF ok
                      THEN {[partition |-> ServerPartition,
                             base_offset |-> current_offset,
                             last_offset |-> last_offset,
                             acks |-> acks,
                             cached |-> {s2.write_cache[i].offset :
                                            i \in 1..Len(s2.write_cache)},
                             stored_on |-> NodesAtOrBeyond(last_offset),
                             epochs |-> {ProducedRecords(values, current_offset)[i].epoch :
                                            i \in 1..Len(values)}]}
                      ELSE responses
    /\ UNCHANGED <<task, laterVars, partition_epochs, epoch_calls, raft, raft_log, cluster, node_offsets,
                   moreVars>>

\* ReplicationManager::replicate_to_nodes; last_offset is batch.last_offset(),
\* <<>> for an empty batch
RECURSIVE ReplicateLoop(_, _, _)
ReplicateLoop(offsets, nodes, last_offset) ==
    IF nodes = <<>> THEN offsets
    ELSE ReplicateLoop(IF last_offset # <<>>
                       THEN update_offset(offsets, Head(nodes), last_offset[1])
                       ELSE offsets,
                       Tail(nodes), last_offset)

\* Notify::notify_waiters on the notifier of the node, if it has one: every
\* Notified future that exists on it is woken
notify_waiters(ws, node_id) ==
    [w \in DOMAIN ws |->
        IF node_id \in notifiers /\ ws[w].pc = "notified" /\ ws[w].notifier = node_id
        THEN [ws[w] EXCEPT !.notified = TRUE] ELSE ws[w]]

RECURSIVE NotifyAll(_, _)
NotifyAll(ws, nodes) ==
    IF nodes = <<>> THEN ws ELSE NotifyAll(notify_waiters(ws, Head(nodes)), Tail(nodes))

ReplicateToNodes(last_offset, nodes) ==
    /\ node_offsets' = ReplicateLoop(node_offsets,
                                     SubSeq(nodes, 1, Min(write_quorum, Len(nodes))),
                                     last_offset)
    /\ waiters' = IF last_offset = <<>> THEN waiters
                  ELSE NotifyAll(waiters,
                                 SubSeq(nodes, 1, Min(write_quorum, Len(nodes))))
    /\ UNCHANGED <<notifiers, appended, last_call, storageVars, task, laterVars,
                   partition_epochs, epoch_calls, raft, raft_log, cluster, responses>>

ProduceValues ==
    UNION {[1..n -> {in[1] : in \in Inputs}] : n \in 0..MaxBatch}

NextServer ==
    \/ \E log_id \in LogIds : CreateLog(log_id)
    \/ \E nodes \in Assignments : AssignPartition(ServerPartition, nodes)
    \/ \E log_id \in LogIds, values \in ProduceValues, acks \in AckModes :
           \E ages \in [1..Len(values) -> BOOLEAN] :
               Produce(log_id, values, acks, ages)
    \/ \E o \in 0..(MaxOffset - 1), nodes \in Assignments :
           ReplicateToNodes(<<o>>, nodes)

SpecServer == Init /\ [][NextServer]_vars

-----------------------------------------------------------------------------
(* The SyncManager of a ReplicationManager: replicas report progress while  *)
(* one task is in wait_for_replication (wait_for_quorum over the nodes      *)
(* known at the call) and another in wait_for_offset.  A waiter is          *)
(*   pc         idle, count, collect, check, register, notified             *)
(*   nodes, target, quorum_size   the arguments of the wait                 *)
(*   seen       wait_for_quorum: for each node read so far, whether its     *)
(*              offset had reached target                                   *)
(*   notifier   the node whose Notify the task awaits; notified: woken      *)
(* A call that returns Ok leaves its task idle.                             *)

ReplNodes == {1, 2, 3}

\* the max_lag arguments of get_in_sync_nodes
LagThresholds == 0..MaxReplOffset

\* SyncManager::get_committed_offset
get_committed_offset(offsets) ==
    IF DOMAIN offsets = {} THEN 0
    ELSE CHOOSE o \in {offsets[n] : n \in DOMAIN offsets} :
             \A n \in DOMAIN offsets : o <= offsets[n]

\* SyncManager::get_high_watermark
get_high_watermark(offsets) ==
    IF DOMAIN offsets = {} THEN 0
    ELSE CHOOSE o \in {offsets[n] : n \in DOMAIN offsets} :
             \A n \in DOMAIN offsets : o >= offsets[n]

\* SyncManager::get_in_sync_nodes
get_in_sync_nodes(offsets, lag) ==
    {n \in DOMAIN offsets :
        Max(get_high_watermark(offsets) - offsets[n], 0) <= lag}

\* the orders in which the keys of a HashMap may be collected
Orderings(S) ==
    {f \in [1..Cardinality(S) -> S] : \A i, j \in 1..Cardinality(S) : f[i] = f[j] => i = j}

\* wait_for_quorum: the nodes counted ready so far
ReadySeen(w) == {w.nodes[i] : i \in {j \in 1..Len(w.seen) : w.seen[j]}}

\* the nodes of the wait whose offset has reached the target
ReadyNow(w) ==
    {w.nodes[i] : i \in {j \in 1..Len(w.nodes) :
                            /\ w.nodes[j] \in DOMAIN node_offsets
                            /\ node_offsets[w.nodes[j]] >= w.target}}

\* ReplicationManager::update_progress -> SyncManager::update_offset
UpdateProgress(node_id, offset) ==
    /\ node_offsets' = update_offset(node_offsets, node_id, offset)
    /\ waiters' = notify_waiters(waiters, node_id)
    /\ UNCHANGED <<notifiers, appended, last_call, storageVars, task, laterVars,
                   partition_epochs, epoch_calls, raft, raft_log, cluster, responses>>

replVars == <<node_offsets, appended, last_call, storageVars, task, laterVars,
              partition_epochs, epoch_calls, raft, raft_log, cluster, responses>>

\* ReplicationManager::wait_for_replication: the keys of node_offsets in the
\* order the map yields them, then wait_for_quorum with the write quorum
WaitForReplication(w, nodes, offset) ==
    /\ waiters[w].pc = "idle"
    /\ waiters' = [waiters EXCEPT ![w] =
           [IdleWaiter EXCEPT !.pc = "count", !.nodes = nodes, !.target = offset,
                              !.quorum_size = write_quorum]]
    /\ UNCHANGED <<notifiers, replVars>>

\* wait_for_quorum: the filter reads the offset of the next node
WaitQuorumCount(w) ==
    /\ waiters[w].pc = "count"
    /\ Len(waiters[w].seen) < Len(waiters[w].nodes)
    /\ LET node_id == waiters[w].nodes[Len(waiters[w].seen) + 1]
           ready == /\ node_id \in DOMAIN node_offsets
                    /\ node_offsets[node_id] >= waiters[w].target
       IN waiters' = [waiters EXCEPT ![w].seen = Append(@, ready)]
    /\ UNCHANGED <<notifiers, replVars>>

\* wait_for_quorum: ready_count >= quorum_size returns Ok
WaitQuorumReturn(w) ==
    /\ waiters[w].pc = "count"
    /\ Len(waiters[w].seen) = Len(waiters[w].nodes)
    /\ Cardinality(ReadySeen(waiters[w])) >= waiters[w].quorum_size
    /\ waiters' = [waiters EXCEPT ![w] = IdleWaiter]
    /\ UNCHANGED <<notifiers, replVars>>

\* wait_for_quorum below the quorum: collect the notifiers of the nodes; with
\* none, sleep and count again, else await the first one
WaitQuorumCollect(w) ==
    /\ waiters[w].pc = "count"
    /\ Len(waiters[w].seen) = Len(waiters[w].nodes)
    /\ Cardinality(ReadySeen(waiters[w])) < waiters[w].quorum_size
    /\ LET have == {i \in 1..Len(waiters[w].nodes) : waiters[w].nodes[i] \in notifiers}
       IN waiters' =
              IF have = {}
              THEN [waiters EXCEPT ![w].seen = <<>>]
              ELSE [waiters EXCEPT
                       ![w].pc = "notified", ![w].notified = FALSE,
                       ![w].notifier =
                           waiters[w].nodes[CHOOSE i \in have : \A j \in have : i <= j]]
    /\ UNCHANGED <<notifiers, replVars>>

\* the awaited Notified future completes: the loop starts over
WaitWake(w) ==
    /\ waiters[w].pc = "notified"
    /\ waiters[w].notified
    /\ waiters' = [waiters EXCEPT
           ![w].pc = IF w = "quorum" THEN "count" ELSE "check",
           ![w].seen = <<>>, ![w].notified = FALSE]
    /\ UNCHANGED <<notifiers, replVars>>

\* SyncManager::wait_for_offset is called
WaitForOffset(w, node_id, target_offset) ==
    /\ waiters[w].pc = "idle"
    /\ waiters' = [waiters EXCEPT ![w] =
           [IdleWaiter EXCEPT !.pc = "check", !.nodes = <<node_id>>,
                              !.target = target_offset, !.quorum_size = 1]]
    /\ UNCHANGED <<notifiers, replVars>>

\* wait_for_offset: the check of the node's offset
WaitOffsetCheck(w) ==
    /\ waiters[w].pc = "check"
    /\ waiters' =
           IF ReadyNow(waiters[w]) # {}
           THEN [waiters EXCEPT ![w] = IdleWaiter]
           ELSE [waiters EXCEPT ![w].pc = "register"]
    /\ UNCHANGED <<notifiers, replVars>>

\* wait_for_offset: get or create the notifier of the node and await it
WaitOffsetRegister(w) ==
    /\ waiters[w].pc = "register"
    /\ notifiers' = notifiers \cup {waiters[w].nodes[1]}
    /\ waiters' = [waiters EXCEPT ![w].pc = "notified", ![w].notified = FALSE,
                                  ![w].notifier = waiters[w].nodes[1]]
    /\ UNCHANGED replVars

NextRepl ==
    \/ \E n \in ReplNodes, o \in 0..MaxReplOffset : UpdateProgress(n, o)
    \/ \E nodes \in Orderings(DOMAIN node_offsets), o \in 0..MaxReplOffset :
           WaitForReplication("quorum", nodes, o)
    \/ WaitQuorumCount("quorum")
    \/ WaitQuorumReturn("quorum")
    \/ WaitQuorumCollect("quorum")
    \/ \E w \in Waiters : WaitWake(w)
    \/ \E n \in ReplNodes, o \in 1..MaxReplOffset : WaitForOffset("offset", n, o)
    \/ WaitOffsetCheck("offset")
    \/ WaitOffsetRegister("offset")

SpecRepl == Init /\ [][NextRepl]_vars

-----------------------------------------------------------------------------
(* One Segment taken alone: the segment of base offset 0 over its file,     *)
(* created empty, appended to, read, and opened again over the file with    *)
(* or without use_mmap.  appended holds, for each append of the Segment     *)
(* object in use, the position it returned and its bytes.                   *)

SegmentData == {<<1>>, <<2, 3>>}

\* Segment::open under a SegmentConfig with the given use_mmap
SegmentOpenConfig(base, content, icontent, mmap_on) ==
    [SegmentOpen(base, content, icontent) EXCEPT
        !.mmap = IF mmap_on /\ Len(content) > 0 THEN Len(content) ELSE 0]

\* Segment::append
SegAppend(data) ==
    /\ Len(segments) = 1
    /\ LET st == SegmentAppend(Storage, 1, data)
       IN /\ st.ok
          /\ Install(st)
          /\ appended' = Append(appended, <<segments[1].size, data>>)
    /\ UNCHANGED <<acked, handed, flushed, synced_files, task, laterVars, partition_epochs, epoch_calls,
                   raft, raft_log, cluster, node_offsets, responses, notifiers,
                   waiters,
                   last_call>>

\* Segment::append on a full segment: Err, nothing written
SegAppendFull(data) ==
    /\ Len(segments) = 1
    /\ ~SegmentAppend(Storage, 1, data).ok
    /\ last_call' = [op |-> "append", args |-> <<data>>, ret |-> <<"StorageError">>]
    /\ UNCHANGED <<storageVars, task, laterVars, partition_epochs, epoch_calls, raft, raft_log, cluster,
                   node_offsets, responses, notifiers, waiters, appended>>

\* Segment::read of the bytes of an earlier append
SegRead(k) ==
    /\ Len(segments) = 1
    /\ LET position == appended[k][1]
           length == Len(appended[k][2])
           r == SegmentRead(segments[1], log_files[segments[1].base], position, length)
       IN /\ segments' = [segments EXCEPT ![1].cur = r.cur]
          /\ last_call' = [op |-> "read", args |-> <<position, length>>,
                           ret |-> <<r.kind, r.data>>]
    /\ UNCHANGED <<log_files, index_files, write_cache, current_offset, acked,
                   handed, flushed, synced_files, task, laterVars, partition_epochs, epoch_calls, raft, raft_log,
                   cluster, node_offsets, responses, notifiers, waiters, appended>>

\* the Segment is dropped and Segment::open called on its file
SegReopen(mmap_on) ==
    /\ Len(segments) = 1
    /\ segments' = <<SegmentOpenConfig(segments[1].base, log_files[segments[1].base],
                                       <<>>, mmap_on)>>
    /\ appended' = <<>>
    /\ last_call' = NoCall
    /\ UNCHANGED <<log_files, index_files, write_cache, current_offset, acked,
                   handed, flushed, synced_files, task, laterVars, partition_epochs, epoch_calls, raft, raft_log,
                   cluster, node_offsets, responses, notifiers, waiters>>

NextSegment ==
    \/ \E data \in SegmentData : SegAppend(data)
    \/ \E data \in SegmentData : SegAppendFull(data)
    \/ \E k \in 1..Len(appended) : SegRead(k)
    \/ \E mmap_on \in BOOLEAN : SegReopen(mmap_on)

SpecSegment == Init /\ [][NextSegment]_vars

-----------------------------------------------------------------------------
(* QuorumConfig::validate applied to every configuration a usize triple can *)
(* hold.  last_call records the call and what it returned.                  *)

callVars == <<storageVars, task, laterVars, partition_epochs, epoch_calls, raft, raft_log, cluster,
              node_offsets, responses, notifiers, waiters, appended>>

Usize == 0..(2^UsizeBits - 1)

\* a + b on usize: an overflow panics in a build with overflow checks and
\* wraps in a build without them
UsizeAdd(a, b) ==
    IF a + b \in Usize
    THEN {[panic |-> FALSE, value |-> a + b]}
    ELSE {[panic |-> TRUE, value |-> 0],
          [panic |-> FALSE, value |-> (a + b) % (2^UsizeBits)]}

\* QuorumConfig::validate: the outcomes of a call, "Ok" or the error message
validate(r, w, rq) ==
    IF r = 0 THEN {"Replication factor must be at least 1"}
    ELSE IF w = 0 \/ w > r THEN {"Invalid write quorum size"}
    ELSE IF rq = 0 \/ rq > r THEN {"Invalid read quorum size"}
    ELSE {IF sum.panic THEN "panic"
          ELSE IF sum.value <= r
               THEN "Read and write quorums must overlap for consistency"
               ELSE "Ok" : sum \in UsizeAdd(w, rq)}

Validate(r, w, rq) ==
    /\ \E out \in validate(r, w, rq) :
           last_call' = [op |-> "validate", args |-> <<r, w, rq>>, ret |-> <<out>>]
    /\ UNCHANGED callVars

NextQuorum ==
    \E r \in Usize, w \in Usize, rq \in Usize : Validate(r, w, rq)

SpecQuorum == Init /\ [][NextQuorum]_vars

-----------------------------------------------------------------------------
(* One QuorumSet: created for a replica set and a target, then told of the  *)
(* responses of nodes, members or not.                                      *)

NewQuorumSet(all_nodes, target) ==
    /\ quorum_set' = QuorumSetNew(all_nodes, target)
    /\ UNCHANGED <<coreVars, copysetVars, tieredVars, serverVars>>

AddResponse(node_id) ==
    /\ quorum_set.responses < MaxResponses
    /\ quorum_set' = add_response(quorum_set, node_id)
    /\ UNCHANGED <<coreVars, copysetVars, tieredVars, serverVars>>

NextQuorumSet ==
    \/ \E all_nodes \in QuorumNodeSets :
          \E target \in 0..Len(all_nodes) : NewQuorumSet(all_nodes, target)
    \/ \E node_id \in ResponseNodes : AddResponse(node_id)

SpecQuorumSet == Init /\ [][NextQuorumSet]_vars

-----------------------------------------------------------------------------
(* One ReplicationManager over four cluster nodes: two tasks call           *)
(* get_copyset.  A step is what the call does under one lock: the lookup    *)
(* under partition_copysets.read(), select_copyset under the selector's     *)
(* write lock, the insert under partition_copysets.write().                 *)

CopysetClusterNodes == <<1, 2, 3, 4>>
CopysetPartitions == {0, 1}

\* CopySetSelector::select_copyset: the copysets the shuffle and the choice of
\* the leader can produce; none when the nodes are fewer than the factor
select_copyset(all_nodes, factor) ==
    IF Len(all_nodes) < factor THEN {}
    ELSE {[nodes |-> SortedNames(S), leader |-> l] :
             <<S, l>> \in {x \in (SUBSET {all_nodes[i] : i \in 1..Len(all_nodes)})
                                     \X {all_nodes[i] : i \in 1..Len(all_nodes)} :
                               Cardinality(x[1]) = factor /\ x[2] \in x[1]}}

\* get_copyset returns Some(copyset)
CopysetReturned(t, partition, copyset) ==
    /\ copyset_task' = [copyset_task EXCEPT ![t] = IdleCopysetTask]
    /\ copyset_returns' = copyset_returns \cup
           {[partition |-> partition, copyset |-> copyset]}

\* get_copyset: the lookup; a recorded copyset is returned
GetCopysetLookup(t, partition) ==
    /\ copyset_task[t].pc = "idle"
    /\ IF partition \in DOMAIN partition_copysets
       THEN CopysetReturned(t, partition, partition_copysets[partition])
       ELSE /\ copyset_task' = [copyset_task EXCEPT
                   ![t] = [pc |-> "select", partition |-> partition, copyset |-> <<>>]]
            /\ UNCHANGED copyset_returns
    /\ UNCHANGED <<partition_copysets, copyset_usage, coreVars, quorum_set, tieredVars, serverVars>>

\* get_copyset: copyset_selector.write().select_copyset()
GetCopysetSelect(t) ==
    /\ copyset_task[t].pc = "select"
    /\ \E c \in select_copyset(CopysetClusterNodes, replication_factor) :
          /\ copyset_usage' =
                 MapInsert(copyset_usage, c.nodes,
                           IF c.nodes \in DOMAIN copyset_usage
                           THEN copyset_usage[c.nodes] + 1 ELSE 1)
          /\ copyset_task' = [copyset_task EXCEPT ![t].pc = "insert",
                                                  ![t].copyset = <<c>>]
    /\ UNCHANGED <<partition_copysets, copyset_returns, coreVars, quorum_set, tieredVars, serverVars>>

\* get_copyset: partition_copysets.write().insert, then Some(copyset)
GetCopysetInsert(t) ==
    /\ copyset_task[t].pc = "insert"
    /\ partition_copysets' = MapInsert(partition_copysets, copyset_task[t].partition,
                                       copyset_task[t].copyset[1])
    /\ CopysetReturned(t, copyset_task[t].partition, copyset_task[t].copyset[1])
    /\ UNCHANGED <<copyset_usage, coreVars, quorum_set, tieredVars, serverVars>>

NextCopyset ==
    \E t \in Tasks :
        \/ \E partition \in CopysetPartitions : GetCopysetLookup(t, partition)
        \/ GetCopysetSelect(t)
        \/ GetCopysetInsert(t)

SpecCopyset == Init /\ [][NextCopyset]_vars

-----------------------------------------------------------------------------
(* TieredStorage over the directory of a partition, with a Local remote     *)
(* store.  The directory is the one a LogStorage has written; the           *)
(* LogStorage makes no call once a file of it has been archived.            *)

\* the .log files of the directory whose name parses to a number below
\* before_offset: the ones archive_old_segments uploads and removes
ArchivedNames(files, before_offset) == {name \in DOMAIN files : name < before_offset}

\* fs::remove_file on each of the names
RemoveFiles(files, names) == [n \in DOMAIN files \ names |-> files[n]]

\* upload_segment with RemoteStorageConfig::Local: fs::copy under the file name
upload_segments(remote, files, names) ==
    [n \in DOMAIN remote \cup names |-> IF n \in names THEN files[n] ELSE remote[n]]

\* TieredStorage::archive_old_segments
ArchiveOldSegments(before_offset) ==
    LET names == ArchivedNames(log_files, before_offset) IN
    /\ remote_files' = upload_segments(remote_files, log_files, names)
    /\ log_files' = RemoveFiles(log_files, names)
    /\ index_files' = RemoveFiles(index_files, names)
    /\ archive_call' = <<[before_offset |-> before_offset, archived |-> names]>>
    /\ UNCHANGED <<segments, write_cache, current_offset, acked, handed, flushed,
                   synced_files, task, restVars, quorum_set, copysetVars, serverVars>>

NextTiered ==
    \/ remote_files = EmptyMap /\ NextStorage
    \/ \E before_offset \in 0..(MaxOffset + 1) : ArchiveOldSegments(before_offset)

SpecTiered == Init /\ [][NextTiered]_vars

-----------------------------------------------------------------------------
(* DLogServer::get_or_create_storage called by two tasks (produce and       *)
(* fetch requests of two connections).  A step is what the call does        *)
(* between two points where another task can run: the lookup under          *)
(* storage.read(), LogStorage::create with its await, the insert under      *)
(* storage.write().  A LogStorage instance is the number of its creation;   *)
(* each one starts with its own current_offset at 0 over the directory of   *)
(* its key.                                                                 *)

StorageKeys == {<<"orders", 0>>, <<"orders", 1>>}

\* get_or_create_storage returns Ok(storage)
StorageReturned(t, key, instance) ==
    /\ storage_task' = [storage_task EXCEPT ![t] = IdleStorageTask]
    /\ storage_returns' = storage_returns \cup {[key |-> key, instance |-> instance]}

\* get_or_create_storage: the lookup; a stored instance is returned
GetStorageLookup(t, log_id, partition) ==
    LET key == <<log_id, partition>> IN
    /\ storage_task[t].pc = "idle"
    /\ IF key \in DOMAIN storage_map
       THEN StorageReturned(t, key, storage_map[key])
       ELSE /\ storage_task' = [storage_task EXCEPT
                   ![t] = [pc |-> "create", key |-> key, instance |-> 0]]
            /\ UNCHANGED storage_returns
    /\ UNCHANGED <<storage_map, instances, coreVars, quorum_set, copysetVars, tieredVars>>

\* get_or_create_storage: Arc::new(LogStorage::create(path, config).await?)
GetStorageCreate(t) ==
    /\ storage_task[t].pc = "create"
    /\ instances' = Append(instances, storage_task[t].key)
    /\ storage_task' = [storage_task EXCEPT ![t].pc = "insert",
                                            ![t].instance = Len(instances) + 1]
    /\ UNCHANGED <<storage_map, storage_returns, coreVars, quorum_set, copysetVars,
                   tieredVars>>

\* get_or_create_storage: storage.write().insert(key, storage), then Ok
GetStorageInsert(t) ==
    /\ storage_task[t].pc = "insert"
    /\ storage_map' = MapInsert(storage_map, storage_task[t].key,
                                storage_task[t].instance)
    /\ StorageReturned(t, storage_task[t].key, storage_task[t].instance)
    /\ UNCHANGED <<instances, coreVars, quorum_set, copysetVars, tieredVars>>

NextGetStorage ==
    \E t \in Tasks :
        \/ \E key \in StorageKeys : GetStorageLookup(t, key[1], key[2])
        \/ GetStorageCreate(t)
        \/ GetStorageInsert(t)

SpecGetStorage == Init /\ [][NextGetStorage]_vars

-----------------------------------------------------------------------------
(* The offset conversions of an EpochStore and the LSN packing of an        *)
(* EpochOffset, as calls.  An Option is <<>> for None and <<v>> for Some(v). *)

U32 == 0..(2^OffsetBits - 1)
U64 == 0..(2^(2 * OffsetBits) - 1)

\* EpochStore::epoch_for_offset: the latest epoch that starts at or before
\* the global offset
epoch_for_offset(store, global_offset) ==
    LET hits == {i \in 1..Len(store) : global_offset >= store[i].start_offset}
    IN IF hits = {} THEN <<>>
       ELSE <<store[CHOOSE i \in hits : \A j \in hits : j <= i].current_epoch>>

\* EpochStore::to_epoch_offset; the difference is cast with `as u32`
to_epoch_offset(store, global_offset) ==
    LET epoch == epoch_for_offset(store, global_offset)
    IN IF epoch = <<>> \/ get_epoch(store, epoch[1]) = 0 THEN <<>>
       ELSE <<[epoch |-> epoch[1],
               offset |-> (global_offset
                           - store[get_epoch(store, epoch[1])].start_offset)
                          % (2^OffsetBits)]>>

\* EpochStore::to_global_offset
to_global_offset(store, epoch_offset) ==
    IF get_epoch(store, epoch_offset.epoch) = 0 THEN <<>>
    ELSE <<(store[get_epoch(store, epoch_offset.epoch)].start_offset
            + epoch_offset.offset) % (2^(2 * OffsetBits))>>

\* EpochOffset::new
EpochOffsetNew(epoch, offset) == [epoch |-> epoch, offset |-> offset]

\* EpochOffset::to_lsn: (epoch << 32) | offset on a u64
to_lsn(epoch_offset) ==
    ((epoch_offset.epoch * 2^OffsetBits) % (2^(2 * OffsetBits))) + epoch_offset.offset

\* EpochOffset::from_lsn: lsn >> 32 and lsn & 0xFFFFFFFF
from_lsn(lsn) ==
    [epoch |-> lsn \div (2^OffsetBits), offset |-> lsn % (2^OffsetBits)]

\* to_epoch_offset on a clone of the partition's store (get_epoch_store)
ToEpochOffset(node, partition, global_offset) ==
    /\ last_call' = [op |-> "to_epoch_offset",
                     args |-> <<StoreOf(node, partition), global_offset>>,
                     ret |-> to_epoch_offset(StoreOf(node, partition), global_offset)]
    /\ UNCHANGED callVars

\* to_global_offset on a clone of the partition's store
ToGlobalOffset(node, partition, epoch, offset) ==
    /\ LET epoch_offset == EpochOffsetNew(epoch, offset)
       IN last_call' = [op |-> "to_global_offset",
                        args |-> <<StoreOf(node, partition), epoch_offset>>,
                        ret |-> to_global_offset(StoreOf(node, partition),
                                                 epoch_offset)]
    /\ UNCHANGED callVars

\* the Sequencer and the partition whose store is converted with
MapNode == 1
MapPartition == 0

NextEpochMap ==
    \/ \E o \in StartOffsets : Activate(MapNode, MapPartition, o)
    \/ \E g \in U64 : ToEpochOffset(MapNode, MapPartition, g)
    \/ \E e \in 0..MaxEpochs, o \in U32 :
           ToGlobalOffset(MapNode, MapPartition, e, o)

SpecEpochMap == Init /\ [][NextEpochMap]_vars

\* Sequencer::seal_epoch as a call whose return value is kept
SealEpochCall(node, partition, epoch, last_offset) ==
    /\ partition_epochs' =
           IF SealReturns(node, partition, epoch)
           THEN [partition_epochs EXCEPT ![node][partition] =
                     seal_epoch(@, epoch, last_offset)]
           ELSE partition_epochs
    /\ last_call' = [op |-> "seal_epoch",
                     args |-> <<node, partition, epoch, last_offset>>,
                     ret |-> <<SealReturns(node, partition, epoch)>>]
    /\ UNCHANGED <<storageVars, task, laterVars, epoch_calls, raft, raft_log, cluster, node_offsets,
                   responses, notifiers, waiters, appended>>

\* one Sequencer: activations of one partition, seals of any
NextSeal ==
    \/ \E o \in StartOffsets : Activate(MapNode, MapPartition, o)
    \/ \E q \in Partitions, e \in 0..MaxEpochs, o \in LastOffsets :
           SealEpochCall(MapNode, q, e, o)

SpecSeal == Init /\ [][NextSeal]_vars

\* to_lsn, then from_lsn of what it returned
LsnRoundTrip(epoch, offset) ==
    /\ LET epoch_offset == EpochOffsetNew(epoch, offset)
       IN last_call' = [op |-> "to_lsn", args |-> <<epoch_offset>>,
                        ret |-> <<to_lsn(epoch_offset),
                                  from_lsn(to_lsn(epoch_offset))>>]
    /\ UNCHANGED callVars

NextLsn ==
    \E e \in U64, o \in U32 : LsnRoundTrip(e, o)

SpecLsn == Init /\ [][NextLsn]_vars

-----------------------------------------------------------------------------
(* Claims about one LogStorage *)

\* C1: every record whose append returned Ok(offset) is returned by
\* read(offset) with the value and the epoch it was appended with, at any
\* time after the append returned.
C1_ReadReturnsAppended ==
    \A r \in acked :
        LET res == ReadResult(segments, log_files, r.offset)
        IN res.kind = "Some" /\ res.rec.value = r.value /\ res.rec.epoch = r.epoch

\* C2: read(k) returns a record for every k below high_watermark and None
\* at high_watermark.
C2_NoGapBelowHighWatermark ==
    /\ \A k \in 0..(high_watermark - 1) :
          ReadResult(segments, log_files, k).kind = "Some"
    /\ ReadResult(segments, log_files, high_watermark).kind = "None"

\* C9: after a successful flush, a LogStorage opened over the same directory
\* has the same high_watermark and the same read(k) for every k.
Reopened == LogStorageOpen(log_files, index_files)

C9_ReopenSameReads ==
    flushed =>
        /\ Reopened.current_offset = high_watermark
        /\ \A k \in 0..MaxOffset :
              ReadResult(Reopened.segments, log_files, k)
                  = ReadResult(segments, log_files, k)

\* C10: under any interleaving of append and append_batch on a LogStorage
\* that starts empty, each call receives the offsets that follow those of
\* the calls before it (0, 1, 2, ... for single appends), the i-th record of
\* a batch has base_offset + i, no two records share an offset, and
\* high_watermark is the number of offsets handed out.
RECURSIVE HandedOut(_)
HandedOut(n) == IF n = 0 THEN 0 ELSE HandedOut(n - 1) + handed[n][2]

CallRecords == UNION {{task[t].mine[i] : i \in 1..Len(task[t].mine)} : t \in Tasks}

C10_OffsetsUnique ==
    /\ \A i \in 1..Len(handed) : handed[i][1] = HandedOut(i - 1)
    /\ high_watermark = HandedOut(Len(handed))
    /\ \A t \in Tasks :
          LET mine == task[t].mine IN
          mine # <<>> =>
             /\ \A i \in 1..Len(mine) : mine[i].offset = mine[1].offset + i - 1
             /\ \E j \in 1..Len(handed) : handed[j] = <<mine[1].offset, Len(mine)>>
    /\ \A r1, r2 \in acked \cup CallRecords : r1.offset = r2.offset => r1 = r2

\* two calls in flight, one of them a batch of two, the other an append
C10_Witness ==
    /\ \A t \in Tasks : task[t].pc # "idle"
    /\ \E t \in Tasks : Len(task[t].mine) = 2
    /\ \E t \in Tasks : Len(task[t].mine) = 1
    /\ high_watermark = 3

\* C11: a segment made by a roll is named by the offset of the first record
\* written into it, so every record stored in a segment has an offset at or
\* above the segment's base offset.
C11_RollBaseIsFirstOffset ==
    \A i \in 1..Len(segments) :
        /\ \A o \in DOMAIN segments[i].entries : o >= segments[i].base
        /\ (i > 1 /\ DOMAIN segments[i].entries # {}) =>
               segments[i].base \in DOMAIN segments[i].entries

\* C12: on one Segment, created or opened over a file, with or without a
\* memory map, read(position, len) of every earlier append returns exactly
\* the bytes appended, whatever appends and reads came after.
C12_SegmentReadsWhatWasAppended ==
    \A k \in 1..Len(appended) :
        LET r == SegmentRead(segments[1], log_files[segments[1].base],
                             appended[k][1], Len(appended[k][2]))
        IN r.kind = "Ok" /\ r.data = appended[k][2]

-----------------------------------------------------------------------------
(* Claims about the epoch stores *)

\* C6: after any sequence of activate and seal_epoch calls on one partition,
\* every epoch of the partition's store other than the latest one is sealed,
\* and every epoch starts at or after its predecessor's last known offset + 1.
C6_EarlierEpochsSealed ==
    \A n \in SequencerNodes : \A q \in DOMAIN partition_epochs[n] :
        LET store == partition_epochs[n][q]
        IN \A i \in 1..(Len(store) - 1) :
               /\ store[i].sealed
               /\ store[i].last_known_offset # <<>>
               /\ store[i + 1].start_offset >= store[i].last_known_offset[1] + 1

\* C8: when a node activates a partition whose epoch another node has
\* activated and sealed, the epoch it obtains is strictly greater than the
\* sealed one.
C8_FailoverEpochGreater ==
    \A c \in epoch_calls :
        c.sealed_elsewhere # 0 => c.epoch > c.sealed_elsewhere

-----------------------------------------------------------------------------
(* Claims about the Raft nodes *)

\* C4: in a cluster whose nodes share one cluster_nodes list, no two
\* distinct nodes are in role Leader with the same current_term, whatever
\* the interleaving of election timeouts, RequestVote and AppendEntries
\* handling.
C4_OneLeaderPerTerm ==
    \A n \in RaftNodes : \A m \in RaftNodes \ {n} :
        ~ /\ raft[n].role = "Leader"
          /\ raft[m].role = "Leader"
          /\ raft[n].current_term = raft[m].current_term

\* two nodes ran an election for the same term to its end and one of them
\* leads
C4_Witness ==
    \E n \in RaftNodes : \E m \in RaftNodes \ {n} :
        /\ raft[n].role = "Leader"
        /\ raft[m].role = "Candidate"
        /\ raft[m].pc = "idle"
        /\ raft[m].voted_for = <<m>>
        /\ raft[n].current_term = raft[m].current_term

\* C5: once commit_index has reached i on a node, no later
\* handle_append_entries call removes or replaces the log entry at index i.
C5_CommittedNeverRemoved ==
    [][\A n \in RaftNodes :
          \A i \in 1..raft[n].commit_index :
              i <= Len(raft[n].log) =>
                  /\ i <= Len(raft'[n].log)
                  /\ raft'[n].log[i] = raft[n].log[i]]_vars

-----------------------------------------------------------------------------
(* Claims about produce *)

\* C3: a produce with acks=All returns success only when at least
\* write_quorum nodes of the partition's copyset hold an offset at or beyond
\* the last offset of the batch; a produce with acks=Leader returns success
\* only after the local flush, when no record of the batch is still in the
\* write cache.
C3_AcksWaitForQuorumOrFlush ==
    \A r \in responses :
        /\ r.acks = "All" => Cardinality(r.stored_on) >= write_quorum
        /\ r.acks = "Leader" =>
               r.cached \cap (r.base_offset..r.last_offset) = {}

\* C7: every record produce accepts carries a valid epoch (>= 1), the
\* current unsealed epoch of the partition at the node's Sequencer.
C7_RecordsStampedWithEpoch ==
    \A r \in responses :
        \A e \in r.epochs :
            /\ e >= EPOCH_FIRST
            /\ can_write(ServerNode, r.partition, e)

-----------------------------------------------------------------------------
(* Claims about replication progress *)

\* the w-th largest of the offsets the nodes report
WthLargest(offsets, w) ==
    CHOOSE o \in {offsets[n] : n \in DOMAIN offsets} :
        /\ Cardinality({n \in DOMAIN offsets : offsets[n] >= o}) >= w
        /\ \A p \in {offsets[n] : n \in DOMAIN offsets} :
               Cardinality({n \in DOMAIN offsets : offsets[n] >= p}) >= w => p <= o

\* C13: once every node of the copyset has reported progress, the committed
\* offset is the W-th largest of the reported offsets, W the write quorum.
C13_CommittedIsWthLargest ==
    DOMAIN node_offsets = ReplNodes =>
        get_committed_offset(node_offsets) = WthLargest(node_offsets, write_quorum)

\* C14: a wait_for_quorum whose quorum of nodes has reached the target is never
\* left awaiting a notification that only a further update_offset can send.
C14_QuorumWaitReturns ==
    LET w == waiters["quorum"]
    IN ~(/\ w.pc = "notified"
         /\ ~w.notified
         /\ Cardinality(ReadyNow(w)) >= w.quorum_size)

\* C15: when wait_for_replication returns, the nodes it counted that are in
\* sync under the threshold make up the write quorum by themselves, whatever
\* the threshold: a node outside the in-sync set is not counted.
C15_OnlyInSyncNodesCounted ==
    [][\A lag \in LagThresholds :
          (/\ waiters["quorum"].pc = "count"
           /\ waiters'["quorum"].pc = "idle")
          => Cardinality(ReadySeen(waiters["quorum"])
                         \cap get_in_sync_nodes(node_offsets, lag))
                 >= waiters["quorum"].quorum_size]_vars

-----------------------------------------------------------------------------
(* Claims about the quorum configuration *)

\* C16: validate returns Ok exactly when 0 < W <= R, 0 < Rq <= R and
\* W + Rq > R; R=3, W=1, Rq=1 is rejected with the quorum-overlap message and
\* R=3, W=2, Rq=2 is accepted.
C16_ValidateOkIffQuorumsOverlap ==
    last_call.op = "validate" =>
        LET r == last_call.args[1]
            w == last_call.args[2]
            rq == last_call.args[3]
            ret == last_call.ret[1]
        IN /\ (ret = "Ok") <=>
                  (0 < w /\ w <= r /\ 0 < rq /\ rq <= r /\ w + rq > r)
           /\ (r = 3 /\ w = 1 /\ rq = 1) =>
                  ret = "Read and write quorums must overlap for consistency"
           /\ (r = 3 /\ w = 2 /\ rq = 2) => ret = "Ok"

-----------------------------------------------------------------------------
(* Claims about leader election *)

-----------------------------------------------------------------------------
(* Claims about the offset conversions *)

\* the store's epochs start at non-decreasing offsets
NonDecreasingStarts(store) ==
    \A i \in 1..(Len(store) - 1) : store[i].start_offset <= store[i + 1].start_offset

\* C18: on a store whose epochs start at non-decreasing offsets,
\* to_global_offset undoes to_epoch_offset for every global offset at or
\* after the first epoch's start, and to_epoch_offset undoes to_global_offset
\* for every epoch offset whose epoch is in the store.
C18_OffsetConversionsInverse ==
    /\ (/\ last_call.op = "to_epoch_offset"
        /\ last_call.args[1] # <<>>
        /\ NonDecreasingStarts(last_call.args[1])
        /\ last_call.args[2] >= last_call.args[1][1].start_offset)
       => /\ last_call.ret # <<>>
          /\ to_global_offset(last_call.args[1], last_call.ret[1])
                 = <<last_call.args[2]>>
    /\ (/\ last_call.op = "to_global_offset"
        /\ NonDecreasingStarts(last_call.args[1])
        /\ get_epoch(last_call.args[1], last_call.args[2].epoch) # 0)
       => /\ last_call.ret # <<>>
          /\ to_epoch_offset(last_call.args[1], last_call.ret[1])
                 = <<last_call.args[2]>>

\* C19: from_lsn(to_lsn(eo)) = eo for every EpochOffset, the epoch any u64
\* and the offset any u32.
C19_LsnRoundTrip ==
    last_call.op = "to_lsn" => last_call.ret[2] = last_call.args[1]

-----------------------------------------------------------------------------
(* Claims about sealing *)

\* the partition is known to the node's Sequencer and its store has the epoch
EpochExists(n, q, e) ==
    /\ q \in DOMAIN partition_epochs[n]
    /\ \E i \in 1..Len(partition_epochs[n][q]) :
           partition_epochs[n][q][i].current_epoch = e

\* the metadata get_epoch finds for the epoch is sealed
EpochSealed(n, q, e) ==
    /\ EpochExists(n, q, e)
    /\ partition_epochs[n][q][get_epoch(partition_epochs[n][q], e)].sealed

\* C20: a seal_epoch on an existing epoch returns true and leaves it sealed
\* with the last offset recorded, so that the same seal_epoch again changes
\* nothing; a seal_epoch on an unknown partition or epoch returns false and
\* changes nothing; an epoch once sealed stays sealed, and can_write is
\* false for it, whatever step follows.
C20_SealEpochSealsForGood ==
    [][/\ \A n \in SequencerNodes : \A q \in Partitions : \A e \in 0..MaxEpochs :
          \A o \in LastOffsets :
              (/\ last_call'.op = "seal_epoch"
               /\ last_call'.args = <<n, q, e, o>>
               /\ last_call' # last_call) =>
                  IF EpochExists(n, q, e)
                  THEN /\ last_call'.ret = <<TRUE>>
                       /\ EpochSealed(n, q, e)'
                       /\ ~can_write(n, q, e)'
                       /\ partition_epochs'[n][q]
                              [get_epoch(partition_epochs'[n][q], e)]
                              .last_known_offset = <<o>>
                       /\ seal_epoch(partition_epochs'[n][q], e, o)
                              = partition_epochs'[n][q]
                  ELSE /\ last_call'.ret = <<FALSE>>
                       /\ partition_epochs' = partition_epochs
       /\ \A n \in SequencerNodes : \A q \in Partitions : \A e \in 0..MaxEpochs :
              EpochSealed(n, q, e) =>
                  (EpochSealed(n, q, e)' /\ ~can_write(n, q, e)')]_vars

\* seal_epoch returned true for an epoch, at offset 1, and a later epoch
\* that can be written was started after it
C20_Witness ==
    /\ last_call.op = "seal_epoch"
    /\ last_call.ret = <<TRUE>>
    /\ last_call.args[4] = 1
    /\ LET store == StoreOf(last_call.args[1], last_call.args[2])
           i == get_epoch(store, last_call.args[3])
       IN /\ i < Len(store)
          /\ store[i].sealed
          /\ store[i].last_known_offset = <<1>>
          /\ ~can_write(last_call.args[1], last_call.args[2], last_call.args[3])
          /\ can_write(last_call.args[1], last_call.args[2],
                       store[Len(store)].current_epoch)

-----------------------------------------------------------------------------
(* Claims about the epoch numbers of a partition *)

\* the epoch numbers of every partition of every Sequencer are never 0 and
\* strictly increasing, and current_epoch returns the last of them
EpochNumbersIncrease ==
    \A n \in SequencerNodes : \A q \in Partitions :
        /\ \A i \in 1..Len(StoreOf(n, q)) :
               /\ StoreOf(n, q)[i].current_epoch # 0
               /\ i > 1 => StoreOf(n, q)[i - 1].current_epoch
                               < StoreOf(n, q)[i].current_epoch
        /\ StoreOf(n, q) # <<>> =>
               store_current_epoch(StoreOf(n, q))
                   = <<StoreOf(n, q)[Len(StoreOf(n, q))].current_epoch>>

\* C21: an activate of a partition returns 1 when the partition has no epoch
\* and else the latest epoch + 1, and records that epoch with the calling
\* node as sequencer and unsealed; after every sequence of activate and
\* seal_epoch calls the partition's epoch numbers are strictly increasing
\* and never 0, and current_epoch is the last one.
C21_ActivateNumbersEpochs ==
    /\ []EpochNumbersIncrease
    /\ [][\A n \in SequencerNodes : \A q \in Partitions :
             Len(StoreOf(n, q)') = Len(StoreOf(n, q)) + 1 =>
                 /\ \E c \in epoch_calls' \ epoch_calls :
                        /\ c.node = n
                        /\ c.partition = q
                        /\ c.epoch = IF StoreOf(n, q) = <<>> THEN 1
                                     ELSE StoreOf(n, q)[Len(StoreOf(n, q))]
                                              .current_epoch + 1
                        /\ c.epoch = StoreOf(n, q)'[Len(StoreOf(n, q)')].current_epoch
                 /\ StoreOf(n, q)'[Len(StoreOf(n, q)')].sequencer_node = n
                 /\ ~StoreOf(n, q)'[Len(StoreOf(n, q)')].sealed
                 /\ SubSeq(StoreOf(n, q)', 1, Len(StoreOf(n, q)))
                        = StoreOf(n, q)]_vars

\* a Sequencer activated a partition three times, with a seal in between
C21_Witness ==
    \E n \in SequencerNodes : \E q \in DOMAIN partition_epochs[n] :
        /\ Len(partition_epochs[n][q]) = 3
        /\ partition_epochs[n][q][3].current_epoch = 3
        /\ partition_epochs[n][q][1].sealed
        /\ \E c \in epoch_calls : c.node = n /\ c.partition = q /\ c.epoch = 3

-----------------------------------------------------------------------------
(* Claims about elections and votes *)

\* the nodes that can have granted n their vote in the term n is in: a
\* grant in that term leaves the voter in that term with voted_for = n until
\* the voter moves to a higher term, and no term of a node ever decreases
MayHaveVotedFor(rf, n) ==
    {m \in RaftNodes :
        \/ rf[m].current_term > rf[n].current_term
        \/ /\ rf[m].current_term = rf[n].current_term
           /\ rf[m].voted_for = <<n>>}

\* C22: a node becomes Leader for term T only after at least
\* floor(|cluster| / 2) + 1 distinct cluster nodes, itself included, have
\* granted it their vote in term T.
C22_LeaderHasMajorityOfVotes ==
    [][\A n \in RaftNodes :
          raft[n].role # "Leader" /\ raft'[n].role = "Leader" =>
              Cardinality(MayHaveVotedFor(raft', n)) >= majority]_vars

\* the logs a candidate can hold, one for each length and term of the last
\* entry: what its request carries depends on nothing else
CandidateLogs ==
    {<<>>} \cup {[k \in 1..n |-> [term |-> t, index |-> k]] :
                     n \in 1..MaxLogLen, t \in 1..MaxTerm}

\* start_election lines 277-280: the request of a candidate of a term that
\* holds a log
RequestOfCandidate(candidate_id, term, log) ==
    [term |-> term, candidate_id |-> candidate_id,
     last_log_index |-> last_log_index(log), last_log_term |-> last_log_term(log)]

\* the requests the node grants in its state carry a log position at or
\* above its own, and the logs of their candidates are at or above its log
GrantsOnlyUpToDate ==
    /\ \A request \in VoteRequests :
           VoteGranted(raft[LogNode], request) =>
               /\ handle_vote_request(raft[LogNode], request).voted_for
                      = <<request.candidate_id>>
               /\ \/ request.last_log_term > last_log_term(raft[LogNode].log)
                  \/ /\ request.last_log_term = last_log_term(raft[LogNode].log)
                     /\ request.last_log_index
                            >= last_log_index(raft[LogNode].log)
    /\ \A log \in CandidateLogs : \A c \in RaftNodes : \A t \in 1..MaxTerm :
           VoteGranted(raft[LogNode], RequestOfCandidate(c, t, log)) =>
               \/ last_log_term(log) > last_log_term(raft[LogNode].log)
               \/ /\ last_log_term(log) = last_log_term(raft[LogNode].log)
                  /\ Len(log) >= Len(raft[LogNode].log)

\* C23: in one term a node grants its vote to at most one candidate, the
\* vote for itself in start_election included, whatever handle_vote_request,
\* handle_append_entries and start_election calls follow each other; and it
\* grants only to a candidate whose (last_log_term, last_log_index) is
\* lexicographically at or above its own, as the requests carry them and as
\* the logs of the two nodes compare.
C23_OneVotePerTermToUpToDateLog ==
    /\ []GrantsOnlyUpToDate
    /\ [][/\ raft'[LogNode].current_term >= raft[LogNode].current_term
          /\ (/\ raft'[LogNode].current_term = raft[LogNode].current_term
              /\ raft[LogNode].voted_for # <<>>)
                 => raft'[LogNode].voted_for = raft[LogNode].voted_for]_vars

\* the node holds a log and has voted for another node in a term, and a
\* request of a third candidate of that term, with a log as good as the
\* node's, is not granted
C23_Witness ==
    /\ raft[LogNode].log # <<>>
    /\ raft[LogNode].current_term > 0
    /\ \E c \in RaftNodes \ {LogNode} :
           /\ raft[LogNode].voted_for = <<c>>
           /\ \E d \in RaftNodes \ {LogNode, c} :
                  ~VoteGranted(raft[LogNode],
                               RequestOfCandidate(d, raft[LogNode].current_term,
                                                  raft[LogNode].log))

-----------------------------------------------------------------------------
(* Claims about the handlers of a node *)

\* C24: when handle_append_entries or handle_vote_request has returned a
\* reply, on rejecting paths too, the state saved in the file of the node
\* equals its current_term, voted_for and log in memory.
C24_RepliesFollowSave ==
    [][(/\ raft'[LogNode] # raft[LogNode]
        /\ raft'[LogNode].pc = raft[LogNode].pc
        /\ raft[LogNode].pc = "idle")
           => raft_log'[LogNode] = PersistentOf(raft'[LogNode])]_vars

\* C25: after a node in any role has handled an AppendEntries or a
\* RequestVote request whose term is above its current_term, it is Follower,
\* its current_term is the term of the request, its leader state is dropped,
\* and voted_for is empty or the candidate it granted in that call.
C25_HigherTermMakesFollower ==
    /\ \A request \in AppendEntriesRequests :
           request.term > raft[LogNode].current_term =>
               LET s2 == handle_append_entries(raft[LogNode], request)
               IN /\ s2.role = "Follower"
                  /\ s2.current_term = request.term
                  /\ s2.leader = <<>>
                  /\ s2.voted_for = <<>>
    /\ \A request \in VoteRequests :
           request.term > raft[LogNode].current_term =>
               LET s2 == handle_vote_request(raft[LogNode], request)
               IN /\ s2.role = "Follower"
                  /\ s2.current_term = request.term
                  /\ s2.leader = <<>>
                  /\ \/ s2.voted_for = <<>>
                     \/ /\ VoteGranted(raft[LogNode], request)
                        /\ s2.voted_for = <<request.candidate_id>>

\* the node led term 1 and proposed, which its file still shows, and a
\* request of term 2 it did not grant has made it a Follower of term 2
\* without vote and without leader state
C25_Witness ==
    /\ raft_log[LogNode].current_term = 1
    /\ raft_log[LogNode].voted_for = <<LogNode>>
    /\ raft_log[LogNode].log # <<>>
    /\ raft[LogNode].role = "Follower"
    /\ raft[LogNode].current_term = 2
    /\ raft[LogNode].voted_for = <<>>
    /\ raft[LogNode].leader = <<>>
    /\ raft[LogNode].pc = "idle"

-----------------------------------------------------------------------------
(* Claims about the log of a follower *)

\* the request entry that replaces a conflicting entry of the log, if any:
\* the loop of handle_append_entries compares terms position by position
ReplacesConflict(log, request) ==
    \E k \in 1..Len(request.entries) :
        /\ request.entries[k].index <= Len(log)
        /\ log[request.entries[k].index].term # request.entries[k].term

\* C26: after handle_append_entries has returned success for a request
\* whose entries carry consecutive indices from prev_log_index + 1, the log
\* of the follower holds every entry of the request at its index, the
\* entries up to prev_log_index are unchanged, the entries that followed a
\* replaced conflicting entry are gone, and the index field of every entry
\* is its 1-based position.
C26_AppendEntriesInstallsEntries ==
    \A request \in AppendEntriesRequests :
        AppendEntriesSuccess(raft[LogNode], request) =>
            LET log == raft[LogNode].log
                log2 == handle_append_entries(raft[LogNode], request).log
            IN /\ \A k \in 1..Len(request.entries) :
                      /\ request.entries[k].index <= Len(log2)
                      /\ log2[request.entries[k].index] = request.entries[k]
               /\ SubSeq(log2, 1, request.prev_log_index)
                      = SubSeq(log, 1, request.prev_log_index)
               /\ ReplacesConflict(log, request) =>
                      Len(log2) = request.prev_log_index + Len(request.entries)
               /\ \A i \in 1..Len(log2) : log2[i].index = i

\* what holds of handle_append_entries on every log, also one whose index
\* fields propose has numbered: the terms of the request's entries are at
\* their positions, the entries before them are unchanged, the entries
\* after a replaced entry are gone
RequestEntriesInstalledByTerm ==
    \A request \in AppendEntriesRequests :
        AppendEntriesSuccess(raft[LogNode], request) =>
            LET log == raft[LogNode].log
                log2 == handle_append_entries(raft[LogNode], request).log
            IN /\ \A k \in 1..Len(request.entries) :
                      /\ request.entries[k].index <= Len(log2)
                      /\ log2[request.entries[k].index].term
                             = request.entries[k].term
               /\ SubSeq(log2, 1, request.prev_log_index)
                      = SubSeq(log, 1, request.prev_log_index)
               /\ ReplacesConflict(log, request) =>
                      Len(log2) = request.prev_log_index + Len(request.entries)

\* C27: after a successful AppendEntries whose leader_commit is above the
\* commit_index of the follower, commit_index is the smaller of leader_commit
\* and the index of the last entry now in the log; and the commit_index of
\* a node is never above the number of entries of its log.
C27_CommitIndexFollowsLeaderCommit ==
    /\ raft[LogNode].commit_index <= Len(raft[LogNode].log)
    /\ \A request \in AppendEntriesRequests :
           (/\ AppendEntriesSuccess(raft[LogNode], request)
            /\ request.leader_commit > raft[LogNode].commit_index) =>
               LET s2 == handle_append_entries(raft[LogNode], request)
               IN s2.commit_index = Min(request.leader_commit, Len(s2.log))

-----------------------------------------------------------------------------
(* Claims about the segments and the write cache under concurrent calls *)

\* C28: under every interleaving of append, append_batch and flush on one
\* LogStorage the segment list keeps strictly increasing base offsets, so
\* that no two segments share a base or a file, and once a segment has a
\* successor no further bytes are appended to it.
C28_SegmentsStrictlyIncreasing ==
    [][/\ \A i \in 1..Len(segments') : \A j \in 1..Len(segments') :
              i < j => segments'[i].base < segments'[j].base
       /\ \A i \in 1..(Len(segments) - 1) :
              /\ segments'[i].size = segments[i].size
              /\ log_files'[segments[i].base] = log_files[segments[i].base]]_vars

\* C29: in every segment the index entries are appended in strictly
\* increasing offset order, after every sequence of append, append_batch and
\* flush, also when append_batch writes directly while records of lower
\* offsets are still in the write cache.
C29_IndexEntriesIncreasing ==
    \A b \in DOMAIN index_files :
        \A i \in 1..Len(index_files[b]) : \A j \in 1..Len(index_files[b]) :
            i < j => index_files[b][i][1] < index_files[b][j][1]

\* the record is in the write cache
InWriteCache(rec) == \E i \in 1..Len(write_cache) : write_cache[i] = rec

\* an index entry of some segment leads to the offset of the record
InSegment(rec) ==
    \E k \in 1..Len(segments) : rec.offset \in DOMAIN segments[k].entries

\* the record is one a running write_batch or flush_cache loop has yet to
\* write
InWriteLoop(rec) ==
    \E t \in Tasks : \E i \in 1..Len(task[t].todo) : task[t].todo[i] = rec

\* C30: in every reachable state each record whose append returned Ok is
\* held in the write cache or in a segment, where an index entry leads to
\* it, and in one of the two only; a drain writes the cached records in
\* increasing offset order; all this also when a write fails partway
\* through a drain.  (A record a running drain holds between the two is
\* not counted against the claim.)
C30_AckedRecordsHeldOnce ==
    /\ \A rec \in acked :
           /\ InWriteCache(rec) \/ InSegment(rec) \/ InWriteLoop(rec)
           /\ ~(InWriteCache(rec) /\ InSegment(rec))
    /\ \A t \in Tasks : \A i \in 1..Len(task[t].todo) : \A j \in 1..Len(task[t].todo) :
           i < j => task[t].todo[i].offset < task[t].todo[j].offset

-----------------------------------------------------------------------------
(* Claims about what a flush makes durable *)

\* the bytes of the record in segment k and the index entry that leads to
\* them are in the content the files of the segment had at their last sync
SyncedIn(rec, k) ==
    LET base == segments[k].base
        e == segments[k].entries[rec.offset]
    IN /\ base \in DOMAIN synced_files.log
       /\ e[1] + e[2] <= Len(synced_files.log[base])
       /\ SubSeq(synced_files.log[base], e[1] + 1, e[1] + e[2]) = Serialize(rec)
       /\ base \in DOMAIN synced_files.index
       /\ \E i \in 1..Len(synced_files.index[base]) :
              synced_files.index[base][i] = <<rec.offset, e[1], e[2]>>

\* C31: when flush() has returned Ok the write cache is empty and, for every
\* record appended before the call, the segment that holds it and the index
\* of that segment have been synced with the record in them; this covers
\* records written into a segment that was rolled away from during the
\* flush, not only the last segment.
C31_FlushSyncsEverySegment ==
    flushed =>
        /\ write_cache = <<>>
        /\ \A rec \in acked :
               \A k \in 1..Len(segments) :
                   rec.offset \in DOMAIN segments[k].entries => SyncedIn(rec, k)

-----------------------------------------------------------------------------
(* Claims about a QuorumSet *)

\* C32: after any sequence of add_response calls, is_satisfied() is true
\* exactly when at least target distinct member nodes have responded
\* (required_nodes holds the members that have); a repeated response and a
\* response from a node outside all_nodes do not bring the quorum closer.
C32_SatisfiedIffDistinctMembers ==
    is_satisfied(quorum_set) <=>
        Cardinality(quorum_set.required_nodes) >= quorum_set.target

-----------------------------------------------------------------------------
(* Claims about the waits of the SyncManager *)

\* C33: under any interleaving of wait_for_offset(node, target) with an
\* update_offset(node, o), o >= target, the wait returns: the waiting task
\* is never left awaiting the notifier, with no wake-up on its way, while
\* the offset of the node has reached the target (no wake-up is lost
\* between the check and the registration, or before a notifier exists).
C33_NoWakeUpLost ==
    ~ (/\ waiters["offset"].pc = "notified"
       /\ ~waiters["offset"].notified
       /\ ReadyNow(waiters["offset"]) # {})

-----------------------------------------------------------------------------
(* Claims about the copysets *)

\* C34: all get_copyset(p) calls for the same partition p return the same
\* copyset, nodes and leader, also the calls that run concurrently while the
\* partition has no recorded copyset.
C34_OneCopysetPerPartition ==
    \A a \in copyset_returns : \A b \in copyset_returns :
        a.partition = b.partition => a.copyset = b.copyset

-----------------------------------------------------------------------------
(* Claims about the archive *)

\* the offsets the index file of a segment has entries for
StoredOffsets(entries) == {entries[i][1] : i \in 1..Len(entries)}

\* C35: archive_old_segments(before_offset) uploads and removes a local
\* segment and its index only if every offset stored in that segment is
\* below before_offset; a segment that holds an offset at or above it, the
\* tail segment in particular, is left in place.
C35_ArchivesOnlySegmentsBelow ==
    [][\A base \in DOMAIN log_files :
          base \notin DOMAIN log_files' =>
              \A o \in StoredOffsets(index_files[base]) :
                  o < archive_call'[1].before_offset]_vars

-----------------------------------------------------------------------------
(* Claims about the commit index and the indices of the log *)

\* C36: on every Raft node commit_index never decreases, whatever
\* handle_append_entries calls the node serves, also a call that follows a
\* truncation of the log or carries a leader_commit beyond the node's log.
C36_CommitIndexNeverDecreases ==
    [][\A n \in RaftNodes : raft'[n].commit_index >= raft[n].commit_index]_vars

-----------------------------------------------------------------------------
(* Claims about the committed offset *)

\* C37: the committed offset (get_committed_offset / committed_offset)
\* never decreases under any sequence of update_offset, update_progress and
\* replicate_to_nodes calls, also when a late report carries a lower offset
\* for a node or a node not tracked before reports for the first time.
C37_CommittedOffsetNeverDecreases ==
    [][get_committed_offset(node_offsets') >= get_committed_offset(node_offsets)]_vars

\* C38: successive successful propose calls on a Leader return the indices
\* 1, 2, 3, ...: the entry a Leader's log grows by has its 1-based position
\* in the log as its index, and no two entries of that log share an index.
\* (On a node that is not Leader propose returns NotLeader before it
\* touches the log.)
C38_ProposedIndexIsPosition ==
    [][\A n \in RaftNodes :
          (/\ raft[n].role = "Leader"
           /\ raft'[n].role = "Leader"
           /\ Len(raft'[n].log) = Len(raft[n].log) + 1
           /\ SubSeq(raft'[n].log, 1, Len(raft[n].log)) = raft[n].log)
          => /\ raft'[n].log[Len(raft'[n].log)].index = Len(raft'[n].log)
             /\ \A i \in 1..Len(raft[n].log) :
                    raft'[n].log[i].index # raft'[n].log[Len(raft'[n].log)].index]_vars

-----------------------------------------------------------------------------
(* Claims about the termination of the write path *)

\* C39: every append, append_batch and flush call terminates: writing one
\* record rolls the segment at most once; a record whose serialized size is
\* above the segment's max_size is not written by rolling segment after
\* segment.
C39_OneRollPerRecord ==
    task[WriterTask].rolls <= 1

-----------------------------------------------------------------------------
(* Claims about the storage of a partition *)

\* C40: for each (log, partition) key every caller of get_or_create_storage
\* receives the same LogStorage instance, the callers that run concurrently
\* before any storage exists for the key included: a partition never has
\* two live instances, each with its own offset counter, over one directory.
C40_OneStoragePerKey ==
    \A a \in storage_returns : \A b \in storage_returns :
        a.key = b.key => a.instance = b.instance

=============================================================================
